---- MODULE Spec2Model ----
(***************************************************************************)
(* Teacher Dashboard backend (src/app.js): the Express handlers that turn  *)
(* spreadsheet tables into view models.  Each request is an async handler  *)
(* that awaits its table fetches one after the other inside one try/catch  *)
(* and sends one response.                                                 *)
(*                                                                         *)
(* JavaScript values: a cell is a string; reading past the end of a row    *)
(* gives `undefined`, written UNDEF here; `null` is written NULL.  Row and  *)
(* cell indices are zero-based as in the source (Cell(row, 3) is row[3]).  *)
(* A response body that the source sends as a JSON array is held in the    *)
(* record [array |-> <<...>>], so that every body is a record.             *)
(***************************************************************************)
EXTENDS Integers, Sequences, FiniteSets, TLC

VARIABLES
  store,   \* the spreadsheet: sheet name -> rows (row 0 is the header)
  req,     \* the requests in flight: r -> [endpoint, param]
  env,     \* what request r observes of the clock and of Math.random
  pc,      \* r -> "received" | "awaiting" | "done"
  issued,  \* r -> the ranges the handler has requested, in order
  data,    \* r -> the tables of the fetches that completed, in order
  reads,   \* r -> the sheets whose rows the handler's code has read so far
  sent     \* r -> the responses sent for r, in order

vars == <<store, req, env, pc, issued, data, reads, sent>>

----------------------------------------------------------------------------
\* Bounds of the model

\* Number of concurrent requests in the interleaving specification.
NumReq == 2
\* Most data rows in a generated table.
MaxRows == 2

----------------------------------------------------------------------------
\* JavaScript values

UNDEF == "<undefined>"
NULL == "<null>"

\* JS truthiness of a cell value (a string, undefined or null).
Truthy(v) == v # UNDEF /\ v # NULL /\ v # ""

\* v || d
OrElse(v, d) == IF Truthy(v) THEN v ELSE d

\* row[i], zero-based; undefined past the end of the row.
Cell(row, i) == IF i + 1 <= Len(row) THEN row[i + 1] ELSE UNDEF

\* rows.slice(1)
Slice1(rows) == IF Len(rows) <= 1 THEN <<>> ELSE SubSeq(rows, 2, Len(rows))

\* seq.slice(0, n)
Take(seq, n) == IF Len(seq) <= n THEN seq ELSE SubSeq(seq, 1, n)

\* seq.filter(test).length
Count(seq, Test(_)) == Len(SelectSeq(seq, Test))

\* seq.map(f)
Map(seq, F(_)) == [i \in 1..Len(seq) |-> F(seq[i])]

\* seq.find(test): the first element passing the test, undefined if none.
Find(seq, Test(_)) ==
  LET hits == SelectSeq(seq, Test)
  IN  IF hits = <<>> THEN UNDEF ELSE hits[1]

\* Whether seq.find(test) found an element.
Found(seq, Test(_)) == SelectSeq(seq, Test) # <<>>

\* Sum of a sequence of integers (reduce((sum, x) => sum + x, 0)).
RECURSIVE SumSeq(_)
SumSeq(s) == IF s = <<>> THEN 0 ELSE s[1] + SumSeq(Tail(s))

\* The distinct values of a sequence in order of first occurrence
\* (Array.from(new Set(seq))).
RECURSIVE Distinct(_)
Distinct(s) ==
  IF s = <<>> THEN <<>>
  ELSE LET init == Distinct(SubSeq(s, 1, Len(s) - 1))
           last == s[Len(s)]
       IN  IF \E i \in 1..Len(init) : init[i] = last THEN init
           ELSE Append(init, last)

\* IEEE 754 double arithmetic for a quotient of integers, as far as
\* Math.round((p / t) * 100) needs it.

\* The binary exponent e of p / t: 2^e <= p / t < 2^(e + 1) (p, t > 0).
RECURSIVE BinaryExponent(_, _)
BinaryExponent(p, t) ==
  IF p >= 2 * t THEN BinaryExponent(p, 2 * t) + 1
  ELSE IF p < t THEN BinaryExponent(2 * p, t) - 1
  ELSE 0

\* (a * 2^k) % n
RECURSIVE TimesPow2Mod(_, _, _)
TimesPow2Mod(a, k, n) ==
  IF k = 0 THEN a % n ELSE TimesPow2Mod((2 * a) % n, k - 1, n)

\* 2^k for small k >= 0.
RECURSIVE Pow2(_)
Pow2(k) == IF k = 0 THEN 1 ELSE 2 * Pow2(k - 1)

\* The double p / t minus the exact quotient, in t-ths of the last place of
\* the 53-bit significand: the division rounds to nearest, ties to even.
QuotientError(p, t) ==
  LET k == 52 - BinaryExponent(p, t)
      twice == TimesPow2Mod(p, k, 2 * t)
      rest == twice % t
      odd == twice >= t
  IN  IF 2 * rest < t \/ (2 * rest = t /\ ~odd) THEN 0 - rest ELSE t - rest

\* Whether the double (p / t) * 100 is below the exact 100 * p / t when that
\* is a half-integer h: the product 100 * (p / t) is rounded to the nearest
\* double, whose distance to its neighbour below h is 2^(eh - 52), halved
\* when h is a power of two, eh being the binary exponent of h.
HalfRoundsBelow(p, t) ==
  LET gap == BinaryExponent(100 * p, t) - BinaryExponent(p, t)
      below == IF 200 * p = t THEN Pow2(gap - 1) ELSE Pow2(gap)
  IN  /\ QuotientError(p, t) < 0
      /\ 200 * (0 - QuotientError(p, t)) > t * below

\* Math.round((p / t) * 100) for integers p >= 0, t > 0. Math.round rounds
\* halves up; the double differs from the exact value by less than the
\* distance of a non-half value to the nearest half-integer, so it matters
\* only when 100 * p / t is a half-integer.
RoundPct(p, t) ==
  IF p > 0 /\ (200 * p) % t = 0 /\ ((200 * p) \div t) % 2 = 1
       /\ HalfRoundsBelow(p, t)
  THEN (200 * p + t) \div (2 * t) - 1
  ELSE (200 * p + t) \div (2 * t)

----------------------------------------------------------------------------
\* The table store (Google Sheets values.get)

Sheets ==
  {"Authentication", "Teachers", "Students", "Performance", "Workshops",
   "ServiceCourses", "Discipline", "Achievements", "Attendance",
   "Assessments", "Grades", "Syllabus", "Events", "Communications",
   "Parents"}

\* A range 'Sheet!A:<letter>' as [sheet, cols]: the first `cols` columns.
Range(sheet, cols) == [sheet |-> sheet, cols |-> cols]

\* The API leaves out the empty cells at the end of a row.
RECURSIVE DropTrailingEmpty(_)
DropTrailingEmpty(row) ==
  IF row # <<>> /\ row[Len(row)] = ""
  THEN DropTrailingEmpty(SubSeq(row, 1, Len(row) - 1))
  ELSE row

\* response.data.values || [] of a values.get on `range`: the rows of the
\* sheet cut to the columns of the range.
FetchRows(st, range) ==
  [i \in 1..Len(st[range.sheet]) |->
     DropTrailingEmpty(Take(st[range.sheet][i], range.cols))]

----------------------------------------------------------------------------
\* Dates.  A Date is held as a day number (days since 1970-01-01).

Pad2(n) == IF n < 10 THEN "0" \o ToString(n) ELSE ToString(n)

\* Year, month (1..12) and day of the month of day number d (d >= 0).
Civil(d) ==
  LET z == d + 719468
      era == z \div 146097
      doe == z - era * 146097
      yoe == (doe - doe \div 1460 + doe \div 36524 - doe \div 146096) \div 365
      doy == doe - (365 * yoe + yoe \div 4 - yoe \div 100)
      mp == (5 * doy + 2) \div 153
      dd == doy - (153 * mp + 2) \div 5 + 1
      mm == IF mp < 10 THEN mp + 3 ELSE mp - 9
      yy == yoe + era * 400 + (IF mm <= 2 THEN 1 ELSE 0)
  IN  [year |-> yy, month |-> mm, day |-> dd]

\* date.toISOString().slice(0, 10) of a Date whose UTC day is d.
ISODate(d) ==
  LET c == Civil(d)
  IN  ToString(c.year) \o "-" \o Pad2(c.month) \o "-" \o Pad2(c.day)

\* getDay() of day number d: 0 is Sunday (1970-01-01 was a Thursday).
GetDay(d) == (d + 4) % 7

\* getDate() and getMonth() (0..11) of day number d.
GetDate(d) == Civil(d).day
GetMonth(d) == Civil(d).month - 1

DayMs == 86400000
MinuteMs == 60000

\* The server's time zone (the TZ of the process): local time minus UTC is
\* `before` minutes until the zone's clock change and `after` minutes from
\* it; wall-clock times of the local day changeDay from minute changeMinute
\* on, and of later days, are read with `after`. A wall-clock time that the
\* change skips or repeats is read with `before`.
ZoneOffsetAtLocal(zone, localDay, localMs) ==
  IF \/ localDay > zone.changeDay
     \/ localDay = zone.changeDay /\ localMs >= zone.changeMinute * MinuteMs
  THEN zone.after ELSE zone.before

\* Local time minus UTC, in minutes, at the UTC instant (day, ms of the day).
ZoneOffsetAtUTC(zone, day, ms) ==
  LET larger == IF zone.before > zone.after THEN zone.before ELSE zone.after
      change == (zone.changeMinute - larger) * MinuteMs
      changeDay == zone.changeDay + change \div DayMs
      changeMs == change % DayMs
  IN  IF day > changeDay \/ (day = changeDay /\ ms >= changeMs)
      THEN zone.after ELSE zone.before

\* The clock a request observes: `new Date()` is the instant ms milliseconds
\* into the UTC day today, on a server in time zone `zone`.
\* The server's local calendar day and the local time of day at that instant.
LocalDay(e) ==
  e.today + (e.ms + ZoneOffsetAtUTC(e.zone, e.today, e.ms) * MinuteMs) \div DayMs
LocalMs(e) ==
  (e.ms + ZoneOffsetAtUTC(e.zone, e.today, e.ms) * MinuteMs) % DayMs

\* The UTC day of a Date built by setDate from `new Date()`: setDate moves
\* the local day and keeps the local time of day; the instant follows from
\* the zone's offset at that local time.
UTCDayOfLocal(e, localDay) ==
  localDay
    + (LocalMs(e) - ZoneOffsetAtLocal(e.zone, localDay, LocalMs(e)) * MinuteMs)
        \div DayMs

\* toISOString().slice(0, 10) of that Date.
ISOOfLocal(e, localDay) == ISODate(UTCDayOfLocal(e, localDay))

\* The k-th value of Math.random() a request draws (k = 0, 1, ...), in
\* thousandths: the stream walks RandomValues starting at the request's seed.
RandomValues == <<0, 500, 949, 950, 999>>
Random(e, k) == RandomValues[((e.seed + k) % Len(RandomValues)) + 1]

----------------------------------------------------------------------------
\* Endpoints and the table ranges each handler requests, in source order

Endpoints ==
  {"auth", "teacher-data", "dashboard-data", "enrollment-data",
   "categories-data", "performance-data", "workshops-data",
   "discipline-data", "achievements-data", "attendance-data",
   "assessments-data", "syllabus-data", "calendar-data",
   "communications-data", "student-details"}

Plan(e) ==
  CASE e = "auth" -> <<Range("Authentication", 2)>>
    [] e = "teacher-data" -> <<Range("Teachers", 5)>>
    [] e = "dashboard-data" ->
         <<Range("Students", 5), Range("Performance", 3), Range("Workshops", 3)>>
    [] e = "enrollment-data" -> <<Range("Students", 7)>>
    [] e = "categories-data" -> <<Range("Students", 7), Range("Performance", 3)>>
    [] e = "performance-data" -> <<Range("Performance", 8), Range("Students", 5)>>
    [] e = "workshops-data" -> <<Range("Workshops", 6), Range("ServiceCourses", 6)>>
    [] e = "discipline-data" -> <<Range("Discipline", 5)>>
    [] e = "achievements-data" -> <<Range("Achievements", 5)>>
    [] e = "attendance-data" -> <<Range("Attendance", 7), Range("Students", 3)>>
    [] e = "assessments-data" -> <<Range("Assessments", 7), Range("Grades", 5)>>
    [] e = "syllabus-data" -> <<Range("Syllabus", 10)>>
    [] e = "calendar-data" -> <<Range("Events", 5)>>
    [] e = "communications-data" ->
         <<Range("Communications", 7), Range("Parents", 7)>>
    [] e = "student-details" ->
         <<Range("Students", 7), Range("Performance", 8),
           Range("Discipline", 5), Range("Achievements", 5)>>

\* Handlers that aggregate over all their tables from the first stretch on.
SegmentReadsEager(e, k) == {Plan(e)[i].sheet : i \in 1..Len(Plan(e))}

\* The sheets whose rows the handler's code reads in the stretch that runs
\* when its k-th fetch has completed (up to the next await or the response).
SegmentReads(e, k) ==
  CASE e = "dashboard-data" /\ k = 1 -> {"Students"}
    [] e = "dashboard-data" /\ k = 2 -> {"Performance"}
    [] e = "dashboard-data" /\ k = 3 -> {"Workshops", "Students", "Performance"}
    [] e = "categories-data" /\ k = 1 -> {"Students"}
    [] e = "categories-data" /\ k = 2 -> {"Students", "Performance"}
    [] OTHER ->
         IF k < Len(Plan(e)) THEN {}
         ELSE {Plan(e)[i].sheet : i \in 1..Len(Plan(e))}

\* The table of `sheet` among the completed fetches d of endpoint e.
TableOf(e, d, sheet) ==
  d[CHOOSE i \in 1..Len(Plan(e)) : Plan(e)[i].sheet = sheet]

----------------------------------------------------------------------------
\* Responses

Response(status, body) == [status |-> status, body |-> body]

ErrorObject(message) == [success |-> FALSE, message |-> message]

\* res.json(<array>)
ArrayBody(items) == [array |-> items]

\* The catch block of each handler: res.status(500).json({success:false, ...}).
CatchMessage(e) ==
  CASE e = "auth" -> "Server error during authentication"
    [] e = "teacher-data" -> "Server error fetching teacher data"
    [] e = "dashboard-data" -> "Server error fetching dashboard data"
    [] e = "enrollment-data" -> "Server error fetching enrollment data"
    [] e = "categories-data" -> "Server error fetching categories data"
    [] e = "performance-data" -> "Server error fetching performance data"
    [] e = "workshops-data" -> "Server error fetching workshops data"
    [] e = "discipline-data" -> "Server error fetching discipline data"
    [] e = "achievements-data" -> "Server error fetching achievements data"
    [] e = "attendance-data" -> "Server error fetching attendance data"
    [] e = "assessments-data" -> "Server error fetching assessments data"
    [] e = "syllabus-data" -> "Server error fetching syllabus data"
    [] e = "calendar-data" -> "Server error fetching calendar data"
    [] e = "communications-data" -> "Server error fetching communications data"
    [] e = "student-details" -> "Server error fetching student details"

\* A catch block that reports the error without setting the status.
CatchResponseStatusUnset(e) == Response(200, ErrorObject(CatchMessage(e)))

CatchResponse(e) == Response(500, ErrorObject(CatchMessage(e)))

\* The fields of the object each handler passes to res.status(200).json.
ViewFields(e) ==
  CASE e = "auth" -> {"success", "message", "token"}
    [] e = "teacher-data" -> {"id", "name", "subject", "class", "department"}
    [] e = "dashboard-data" ->
         {"totalStudents", "boys", "girls", "brightLearners", "lateBoomers",
          "workshopsCompleted", "pendingReports", "categories", "performance"}
    [] e \in {"enrollment-data", "discipline-data", "achievements-data"} ->
         {"array"}
    [] e = "categories-data" ->
         {"casteCategories", "serviceCategories", "detailedCategories"}
    [] e = "performance-data" -> {"brightLearners", "lateBoomers"}
    [] e = "workshops-data" -> {"workshops", "serviceCourses"}
    [] e = "attendance-data" ->
         {"presentToday", "totalStudents", "weeklyAverage", "belowThreshold",
          "attendanceTrend", "classComparison", "students"}
    [] e = "assessments-data" ->
         {"nextAssessment", "lastAssessmentAverage", "pendingGrades",
          "assessments", "gradeDistribution", "performanceTrend"}
    [] e = "syllabus-data" ->
         {"completionPercentage", "completedUnits", "totalUnits",
          "remainingDays", "topics", "unitCompletion", "timeAllocation",
          "upcomingTopics"}
    [] e = "calendar-data" -> {"calendarData", "upcomingEvents"}
    [] e = "communications-data" ->
         {"parentMeetings", "pendingResponses", "nextPTM", "communicationLogs",
          "parentDirectory"}
    [] e = "student-details" ->
         {"rollNo", "name", "gender", "category", "serviceCategory", "contact",
          "class", "performanceReport", "strengths", "weaknesses",
          "suggestions", "disciplineRecords", "achievements"}

----------------------------------------------------------------------------
\* POST /api/auth

\* A check that only sees a missing employeeId, not an empty one.
AuthRejectsMissingOnly(employeeId) == employeeId = UNDEF

\* if (!employeeId) return res.status(400)...
AuthRejects(employeeId) == ~Truthy(employeeId)

AuthBadRequest == Response(400, ErrorObject("Employee ID is required"))

\* Whether rows.find(row => row[0] === employeeId) finds a row: the search
\* runs over every row of the table.
AuthEmployeeFound(rows, employeeId) ==
  Found(rows, LAMBDA row : Cell(row, 0) = employeeId)

Pad3(n) ==
  IF n < 10 THEN "00" \o ToString(n)
  ELSE IF n < 100 THEN "0" \o ToString(n) ELSE ToString(n)

\* 'sample-token-' + Date.now(): the milliseconds since 1970-01-01T00:00Z in
\* decimal, written as the seconds followed by the three digits of the
\* milliseconds.
AuthToken(e) ==
  "sample-token-" \o ToString(e.today * 86400 + e.ms \div 1000)
                  \o Pad3(e.ms % 1000)

AuthRespond(employeeId, d, e) ==
  LET rows == d[1]
  IN  IF ~AuthEmployeeFound(rows, employeeId)
      THEN Response(401, ErrorObject("Invalid Employee ID"))
      ELSE Response(200, [success |-> TRUE,
                          message |-> "Authentication successful",
                          token |-> AuthToken(e)])

----------------------------------------------------------------------------
\* GET /api/teacher-data

TeacherRecord(teacher) ==
  [id |-> Cell(teacher, 0),
   name |-> Cell(teacher, 1),
   subject |-> Cell(teacher, 2),
   class |-> Cell(teacher, 3),
   department |-> OrElse(Cell(teacher, 4), "General")]

\* A search range that does not skip the header row.
TeacherRowsWithHeader(rows) == rows

\* rows.slice(1): the rows the teacher is searched in.
TeacherRows(rows) == Slice1(rows)

\* rows.slice(1).find(row => row[0] === employeeId)
TeacherFind(rows, employeeId) ==
  Find(TeacherRows(rows), LAMBDA row : Cell(row, 0) = employeeId)

\* Whether that search finds a row (if (!teacher) return 404).
TeacherFound(rows, employeeId) ==
  Found(TeacherRows(rows), LAMBDA row : Cell(row, 0) = employeeId)

\* const firstTeacher = rows[1]; firstTeacher[0] raises a TypeError when the
\* table has no data row.
TeacherRaises(employeeId, d) == ~Truthy(employeeId) /\ Len(d[1]) < 2

TeacherRespond(employeeId, d) ==
  LET rows == d[1]
  IN  IF Truthy(employeeId)
      THEN IF ~TeacherFound(rows, employeeId)
           THEN Response(404, ErrorObject("Teacher not found"))
           ELSE Response(200, TeacherRecord(TeacherFind(rows, employeeId)))
      ELSE Response(200, TeacherRecord(rows[2]))


----------------------------------------------------------------------------
\* Shared pieces of the handlers

\* A count that takes a row without the cell as a match.
CountEqOrAbsent(rows, col, value) ==
  Count(rows, LAMBDA row : Cell(row, col) \in {value, UNDEF})

\* rows.filter(row => row[col] === value).length
CountEq(rows, col, value) == Count(rows, LAMBDA row : Cell(row, col) = value)

\* cell ? cell.split(',').map(s => s.trim()) : [], for the list cells the
\* model's tables hold; any other cell holds no comma and no outer blank.
SplitTrim(cell) ==
  CASE ~Truthy(cell) -> <<>>
    [] cell = "Focus,Speed" -> <<"Focus", "Speed">>
    [] cell = "Focus, Speed" -> <<"Focus", "Speed">>
    [] cell = "Mar 1,Mar 2" -> <<"Mar 1", "Mar 2">>
    [] cell = "Intro,Practice" -> <<"Intro", "Practice">>
    [] cell = "," -> <<"", "">>
    [] OTHER -> <<cell>>

\* Stands for the JS number NaN; no number the handlers compute equals it.
NaN == 0 - 1000000

\* Math.round((p / t) * 100): NaN when p = t = 0.
RoundRatio(p, t) == IF t = 0 THEN NaN ELSE RoundPct(p, t)

\* Math.floor(Math.random() * 30 + 15), from a draw in thousandths.
RandomParticipants(draw) == (draw * 30) \div 1000 + 15

\* Math.round(85 + Math.random() * 10), from a draw in thousandths.
RandomPercentage(draw) == (2 * (85000 + draw * 10) + 1000) \div 2000

----------------------------------------------------------------------------
\* GET /api/dashboard-data

CasteLabels == <<"General", "OBC", "SC", "ST", "Muslim">>
PerformanceLabels == <<"Excellent", "Good", "Average", "Needs Improvement">>
ServiceLabels == <<"1", "2", "3", "4", "5">>

DashboardCategories(studentData) ==
  [i \in 1..Len(CasteLabels) |->
     [category |-> CasteLabels[i],
      count |-> CountEq(studentData, 3, CasteLabels[i])]]

DashboardPerformance(performance) ==
  [i \in 1..Len(PerformanceLabels) |->
     [name |-> PerformanceLabels[i],
      count |-> CountEq(performance, 1, PerformanceLabels[i])]]

DashboardView(d) ==
  LET studentData == Slice1(d[1])
      performance == Slice1(d[2])
      workshops == Slice1(d[3])
  IN  [totalStudents |-> Len(studentData),
       boys |-> CountEq(studentData, 2, "Male"),
       girls |-> CountEq(studentData, 2, "Female"),
       brightLearners |-> CountEq(performance, 2, "Bright Learner"),
       lateBoomers |-> CountEq(performance, 2, "Late Bloomer"),
       workshopsCompleted |-> CountEq(workshops, 2, "Completed"),
       pendingReports |-> 3,
       categories |-> DashboardCategories(studentData),
       performance |-> DashboardPerformance(performance)]

----------------------------------------------------------------------------
\* GET /api/enrollment-data

EnrollmentRecord(row) ==
  [rollNo |-> Cell(row, 0),
   name |-> Cell(row, 1),
   gender |-> Cell(row, 2),
   category |-> Cell(row, 3),
   serviceCategory |-> Cell(row, 4),
   contact |-> Cell(row, 5),
   status |-> OrElse(Cell(row, 6), "Active")]

EnrollmentView(d) == ArrayBody(Map(Slice1(d[1]), EnrollmentRecord))

----------------------------------------------------------------------------
\* GET /api/categories-data

CasteCategories(students) ==
  [i \in 1..Len(CasteLabels) |->
     [name |-> CasteLabels[i],
      count |-> CountEq(students, 3, CasteLabels[i])]]

ServiceCategories(students) ==
  [i \in 1..Len(ServiceLabels) |->
     [category |-> ServiceLabels[i],
      count |-> CountEq(students, 4, ServiceLabels[i])]]

\* performance.find(p => p[0] === student[0]) has the given category.
\* A variant that looks at every Performance row of the student, not the first.
PerformanceEntryIsAny(performance, student, category) ==
  Found(performance,
        LAMBDA p : Cell(p, 0) = Cell(student, 0) /\ Cell(p, 2) = category)

PerformanceEntryIs(performance, student, category) ==
  /\ Found(performance, LAMBDA p : Cell(p, 0) = Cell(student, 0))
  /\ Cell(Find(performance, LAMBDA p : Cell(p, 0) = Cell(student, 0)), 2) = category

DetailedCategory(category, students, performance) ==
  LET categoryStudents ==
        SelectSeq(students, LAMBDA st : Cell(st, 3) = category.name)
  IN  [name |-> category.name,
       total |-> category.count,
       boys |-> CountEq(categoryStudents, 2, "Male"),
       girls |-> CountEq(categoryStudents, 2, "Female"),
       brightLearners |->
         Count(categoryStudents,
               LAMBDA st : PerformanceEntryIs(performance, st, "Bright Learner")),
       lateBoomers |->
         Count(categoryStudents,
               LAMBDA st : PerformanceEntryIs(performance, st, "Late Bloomer"))]

CategoriesView(d) ==
  LET students == Slice1(d[1])
      performance == Slice1(d[2])
      casteCategories == CasteCategories(students)
  IN  [casteCategories |-> casteCategories,
       serviceCategories |-> ServiceCategories(students),
       detailedCategories |->
         [i \in 1..Len(casteCategories) |->
            DetailedCategory(casteCategories[i], students, performance)]]

----------------------------------------------------------------------------
\* GET /api/performance-data

\* students.find(s => s[0] === row[0]) || []
StudentOf(students, row) ==
  IF Found(students, LAMBDA s : Cell(s, 0) = Cell(row, 0))
  THEN Find(students, LAMBDA s : Cell(s, 0) = Cell(row, 0))
  ELSE <<>>

LearnerRecord(row, students) ==
  LET student == StudentOf(students, row)
  IN  [id |-> Cell(row, 0),
       name |-> OrElse(Cell(student, 1), "Unknown"),
       rollNo |-> Cell(row, 0),
       class |-> OrElse(Cell(student, 3), "Unknown"),
       category |-> OrElse(Cell(student, 3), "Unknown"),
       serviceCategory |-> OrElse(Cell(student, 4), "Unknown"),
       strengths |-> SplitTrim(Cell(row, 3)),
       weaknesses |-> SplitTrim(Cell(row, 4))]

Learners(performance, students, category) ==
  LET rows == SelectSeq(performance, LAMBDA row : Cell(row, 2) = category)
  IN  [i \in 1..Len(rows) |-> LearnerRecord(rows[i], students)]

PerformanceView(d) ==
  LET performance == Slice1(d[1])
      students == Slice1(d[2])
  IN  [brightLearners |-> Learners(performance, students, "Bright Learner"),
       lateBoomers |-> Learners(performance, students, "Late Bloomer")]

----------------------------------------------------------------------------
\* GET /api/workshops-data

\* sessionDates.map((date, index) => ({date, topic: sessionTopics[index] || dflt}))
Sessions(row, defaultTopic) ==
  LET sessionDates == SplitTrim(Cell(row, 4))
      sessionTopics == SplitTrim(Cell(row, 5))
  IN  [i \in 1..Len(sessionDates) |->
         [date |-> sessionDates[i],
          topic |-> OrElse(Cell(sessionTopics, i - 1), defaultTopic)]]

\* The rows of a workshop table as records; `first` is the number of
\* Math.random() draws made before the table's first row.
WorkshopRecords(rows, defaultTopic, e, first) ==
  [i \in 1..Len(rows) |->
     LET row == rows[i]
         drawsBefore ==
           first + Count(SubSeq(rows, 1, i - 1),
                         LAMBDA r : Cell(r, 3) # "Scheduled")
     IN  [id |-> Cell(row, 0),
          title |-> Cell(row, 1),
          duration |-> Cell(row, 2),
          status |-> Cell(row, 3),
          participants |->
            IF Cell(row, 3) = "Scheduled" THEN "0"
            ELSE ToString(RandomParticipants(Random(e, drawsBefore))),
          sessions |-> Sessions(row, defaultTopic)]]

WorkshopsView(d, e) ==
  LET workshopsData == Slice1(d[1])
      coursesData == Slice1(d[2])
      draws == Count(workshopsData, LAMBDA r : Cell(r, 3) # "Scheduled")
  IN  [workshops |->
         WorkshopRecords(workshopsData, "General Discussion", e, 0),
       serviceCourses |->
         WorkshopRecords(coursesData, "General Course Content", e, draws)]

----------------------------------------------------------------------------
\* GET /api/discipline-data and GET /api/achievements-data

DisciplineRecord(row) ==
  [id |-> Cell(row, 0),
   date |-> Cell(row, 1),
   studentName |-> Cell(row, 2),
   rollNo |-> Cell(row, 3),
   description |-> Cell(row, 4),
   actionTaken |-> OrElse(Cell(row, 5), "Verbal Warning")]

DisciplineView(d) == ArrayBody(Map(Slice1(d[1]), DisciplineRecord))

AchievementRecord(row) ==
  [id |-> Cell(row, 0),
   date |-> Cell(row, 1),
   studentName |-> Cell(row, 2),
   title |-> Cell(row, 3),
   description |-> Cell(row, 4)]

AchievementsView(d) == ArrayBody(Map(Slice1(d[1]), AchievementRecord))


----------------------------------------------------------------------------
\* Numbers and dates read from cells

\* Stands for the JS value null in a field that otherwise holds a number.
NullNumber == 0 - 2000000

\* Largest number written in a numeric cell of the model's tables.
MaxCellNumber == 100

\* parseInt(cell) and parseFloat(cell): the model's numeric cells are plain
\* decimal integers; every other cell (and undefined) parses to NaN.
ParseNumber(cell) ==
  IF \E n \in 0..MaxCellNumber : ToString(n) = cell
  THEN CHOOSE n \in 0..MaxCellNumber : ToString(n) = cell
  ELSE NaN

\* x || d for a number x: 0 and NaN are falsy.
NumberOr(x, d) == IF x = 0 \/ x = NaN THEN d ELSE x

\* The day numbers whose ISO form the model's date cells may hold.
FirstDay == 19770
LastDay == 19830

\* new Date(cell) as a day number: the model's date cells are YYYY-MM-DD
\* strings (parsed as UTC midnight of that day); anything else, and
\* undefined, is an Invalid Date (NaN).
ParseDate(cell) ==
  IF \E dd \in FirstDay..LastDay : ISODate(dd) = cell
  THEN CHOOSE dd \in FirstDay..LastDay : ISODate(dd) = cell
  ELSE NaN

\* (a, b) => new Date(a.date) - new Date(b.date) on the parsed keys, as
\* Array.prototype.sort reads it: a NaN result counts as 0.
CompareKeys(a, b) == IF a = NaN \/ b = NaN THEN 0 ELSE a - b

\* Array.prototype.sort of a short array (V8: one run, then binary
\* insertion), by the numeric key of each item; items are [key, val].
\* descending sorts by (a, b) => key(b) - key(a).
SortCompare(a, b, descending) ==
  IF descending THEN CompareKeys(b.key, a.key) ELSE CompareKeys(a.key, b.key)

RECURSIVE RunLength(_, _, _, _)
RunLength(items, idx, isDescending, descending) ==
  IF idx > Len(items) THEN Len(items)
  ELSE LET order == SortCompare(items[idx], items[idx - 1], descending)
       IN  IF (isDescending /\ order >= 0) \/ (~isDescending /\ order < 0)
           THEN idx - 1
           ELSE RunLength(items, idx + 1, isDescending, descending)

Reverse(seq) == [i \in 1..Len(seq) |-> seq[Len(seq) + 1 - i]]

\* The place (0-based) where binary insertion puts pivot into sorted[left..right).
RECURSIVE InsertionPoint(_, _, _, _, _)
InsertionPoint(sorted, pivot, left, right, descending) ==
  IF left >= right THEN left
  ELSE LET mid == left + (right - left) \div 2
       IN  IF SortCompare(pivot, sorted[mid + 1], descending) < 0
           THEN InsertionPoint(sorted, pivot, left, mid, descending)
           ELSE InsertionPoint(sorted, pivot, mid + 1, right, descending)

RECURSIVE BinaryInsertionSort(_, _, _)
BinaryInsertionSort(sorted, rest, descending) ==
  IF rest = <<>> THEN sorted
  ELSE LET at == InsertionPoint(sorted, rest[1], 0, Len(sorted), descending)
       IN  BinaryInsertionSort(
             SubSeq(sorted, 1, at) \o <<rest[1]>> \o SubSeq(sorted, at + 1, Len(sorted)),
             Tail(rest), descending)

SortItems(items, descending) ==
  IF Len(items) < 2 THEN items
  ELSE LET isDescending == SortCompare(items[2], items[1], descending) < 0
           run == RunLength(items, 3, isDescending, descending)
           head == IF isDescending THEN Reverse(SubSeq(items, 1, run))
                   ELSE SubSeq(items, 1, run)
       IN  BinaryInsertionSort(head, SubSeq(items, run + 1, Len(items)), descending)

\* records.sort((a, b) => new Date(a.date) - new Date(b.date)), or the
\* reverse order when descending.
SortByDate(records, descending) ==
  LET items == [i \in 1..Len(records) |->
                  [key |-> ParseDate(records[i].date), val |-> records[i]]]
      sorted == SortItems(items, descending)
  IN  [i \in 1..Len(sorted) |-> sorted[i].val]


----------------------------------------------------------------------------
\* GET /api/attendance-data

\* The ISO dates of the 7 days ending today: setDate(getDate() - i), i = 0..6.
Last7Days(e) == {ISOOfLocal(e, LocalDay(e) - i) : i \in 0..6}

\* Math.round((totalPresent7Days / totalRecords7Days) * 100) || 90
WeeklyAverage(attendance, e) ==
  LET last7DaysAttendance ==
        SelectSeq(attendance, LAMBDA a : Cell(a, 1) \in Last7Days(e))
      totalPresent7Days == CountEq(last7DaysAttendance, 3, "Present")
      totalRecords7Days == Len(last7DaysAttendance)
  IN  NumberOr(RoundRatio(totalPresent7Days, totalRecords7Days), 90)

\* The local day of the n-th trend point (n = 1..7): i runs from 6 down to 0.
TrendDay(e, n) == LocalDay(e) - (7 - n)

TrendHasRows(attendance, e, n) ==
  CountEq(attendance, 1, ISOOfLocal(e, TrendDay(e, n))) > 0

\* Math.random() draws made by the trend points before the n-th.
TrendDrawsBefore(attendance, e, n) ==
  Cardinality({m \in 1..(n - 1) : ~TrendHasRows(attendance, e, m)})

AttendanceTrend(attendance, e) ==
  [n \in 1..7 |->
     LET day == TrendDay(e, n)
         dayAttendance ==
           SelectSeq(attendance, LAMBDA a : Cell(a, 1) = ISOOfLocal(e, day))
         presentDay == CountEq(dayAttendance, 3, "Present")
         totalDay == Len(dayAttendance)
     IN  [date |-> ToString(GetMonth(day) + 1) \o "/" \o ToString(GetDate(day)),
          percentage |->
            IF totalDay > 0 THEN RoundPct(presentDay, totalDay)
            ELSE RandomPercentage(Random(e, TrendDrawsBefore(attendance, e, n)))]]

ClassComparison(weeklyAverage, e, first) ==
  <<[class |-> "X-A", percentage |-> weeklyAverage],
    [class |-> "X-B", percentage |-> RandomPercentage(Random(e, first))],
    [class |-> "X-C", percentage |-> RandomPercentage(Random(e, first + 1))],
    [class |-> "X-D", percentage |-> RandomPercentage(Random(e, first + 2))]>>

\* One entry of students.map(...); draw is the Math.random() value the entry
\* uses when the student has no record for today.
StudentAttendance(student, attendance, todayAttendance, draw) ==
  LET studentAttendance ==
        SelectSeq(attendance, LAMBDA a : Cell(a, 2) = Cell(student, 0))
      totalDays ==
        Len(Distinct(Map(studentAttendance, LAMBDA a : Cell(a, 1))))
      presentDays == CountEq(studentAttendance, 3, "Present")
      todayRecord ==
        Find(todayAttendance, LAMBDA a : Cell(a, 2) = Cell(student, 0))
      hasToday ==
        Found(todayAttendance, LAMBDA a : Cell(a, 2) = Cell(student, 0))
  IN  [rollNo |-> Cell(student, 0),
       name |-> Cell(student, 1),
       status |->
         IF hasToday THEN Cell(todayRecord, 3)
         ELSE IF draw > 150 THEN "Present" ELSE "Absent",
       remarks |-> IF hasToday THEN Cell(todayRecord, 4) ELSE "",
       totalPresent |-> presentDays,
       totalDays |-> totalDays,
       percentage |->
         IF totalDays > 0 THEN RoundPct(presentDays, totalDays) ELSE 90]

AttendanceView(d, e) ==
  LET attendance == Slice1(d[1])
      students == Slice1(d[2])
      today == ISODate(e.today)
      todayAttendance == SelectSeq(attendance, LAMBDA a : Cell(a, 1) = today)
      weeklyAverage == WeeklyAverage(attendance, e)
      trendDraws == TrendDrawsBefore(attendance, e, 8)
      HasToday(student) ==
        Found(todayAttendance, LAMBDA a : Cell(a, 2) = Cell(student, 0))
      studentsData ==
        [i \in 1..Len(students) |->
           StudentAttendance(
             students[i], attendance, todayAttendance,
             Random(e, trendDraws + 3
                       + Count(SubSeq(students, 1, i - 1),
                               LAMBDA st : ~HasToday(st))))]
  IN  [presentToday |-> CountEq(todayAttendance, 3, "Present"),
       totalStudents |-> Len(students),
       weeklyAverage |-> weeklyAverage,
       belowThreshold |-> Count(studentsData, LAMBDA st : st.percentage < 75),
       attendanceTrend |-> AttendanceTrend(attendance, e),
       classComparison |-> ClassComparison(weeklyAverage, e, trendDraws),
       students |-> studentsData]

----------------------------------------------------------------------------
\* GET /api/assessments-data

\* Math.round(total / n) for n > 0.
RoundDiv(total, n) == (2 * total + n) \div (2 * n)

\* null, or the rounded mean of parseFloat(g[3]) || 0 over the grades.
AssessmentAverage(assessmentGrades) ==
  IF Len(assessmentGrades) > 0
  THEN RoundDiv(
         SumSeq(Map(assessmentGrades,
                    LAMBDA g : NumberOr(ParseNumber(Cell(g, 3)), 0))),
         Len(assessmentGrades))
  ELSE NullNumber

AssessmentRecord(assessment, grades) ==
  [id |-> Cell(assessment, 0),
   date |-> Cell(assessment, 1),
   title |-> Cell(assessment, 2),
   type |-> Cell(assessment, 3),
   maxScore |-> Cell(assessment, 4),
   average |->
     AssessmentAverage(
       SelectSeq(grades, LAMBDA g : Cell(g, 0) = Cell(assessment, 0))),
   status |-> Cell(assessment, 5)]

\* a.status === 'Completed' && a.average (null and 0 are falsy)
CompletedWithAverage(a) ==
  a.status = "Completed" /\ a.average # NullNumber /\ a.average # 0

\* a.status === 'Completed' && !a.average
CompletedWithoutAverage(a) ==
  a.status = "Completed" /\ (a.average = NullNumber \/ a.average = 0)

GradeLabels == <<"A", "B", "C", "D", "F">>
GradeFallback == <<5, 12, 18, 8, 2>>

\* grades.filter(g => g[4] === grade).length || fallback
GradeDistribution(grades) ==
  [i \in 1..Len(GradeLabels) |->
     [grade |-> GradeLabels[i],
      count |-> NumberOr(CountEq(grades, 4, GradeLabels[i]), GradeFallback[i])]]

SampleTrend ==
  <<[assessment |-> "Unit Test 1", average |-> 72],
    [assessment |-> "Mid Term", average |-> 76],
    [assessment |-> "Unit Test 2", average |-> 78],
    [assessment |-> "Assignment 3", average |-> 82]>>

PerformanceTrend(assessmentsData) ==
  LET completedAssessments ==
        Take(SortByDate(SelectSeq(assessmentsData, CompletedWithAverage), FALSE), 5)
      trend == [i \in 1..Len(completedAssessments) |->
                  [assessment |-> completedAssessments[i].title,
                   average |-> completedAssessments[i].average]]
  IN  IF Len(trend) < 3 THEN trend \o SampleTrend ELSE trend

\* {date: nextAssessment.date, name: nextAssessment.title || nextAssessment.name}
NextAssessment(assessmentsData) ==
  LET next == Find(assessmentsData, LAMBDA a : a.status = "Scheduled")
  IN  IF ~Found(assessmentsData, LAMBDA a : a.status = "Scheduled")
      THEN [date |-> "Apr 15", name |-> "Unit Test 3"]
      ELSE [date |-> next.date,
            name |-> IF Truthy(next.title) THEN next.title ELSE UNDEF]

LastAssessmentAverage(assessmentsData) ==
  LET completed ==
        SortByDate(SelectSeq(assessmentsData, CompletedWithAverage), TRUE)
  IN  IF completed = <<>> THEN 76 ELSE completed[1].average

AssessmentsView(d) ==
  LET assessments == Slice1(d[1])
      grades == Slice1(d[2])
      assessmentsData ==
        SortByDate([i \in 1..Len(assessments) |->
                      AssessmentRecord(assessments[i], grades)], FALSE)
  IN  [nextAssessment |-> NextAssessment(assessmentsData),
       lastAssessmentAverage |-> LastAssessmentAverage(assessmentsData),
       pendingGrades |-> Count(assessmentsData, CompletedWithoutAverage),
       assessments |-> assessmentsData,
       gradeDistribution |-> GradeDistribution(grades),
       performanceTrend |-> PerformanceTrend(assessmentsData)]


----------------------------------------------------------------------------
\* GET /api/syllabus-data

TopicRecord(row) ==
  [id |-> Cell(row, 0),
   unit |-> Cell(row, 1),
   name |-> Cell(row, 2),
   expectedHours |-> Cell(row, 3),
   timeSpent |-> OrElse(Cell(row, 4), NULL),
   status |-> Cell(row, 5),
   startDate |-> OrElse(Cell(row, 6), NULL),
   completionDate |-> OrElse(Cell(row, 7), NULL)]

\* Array.from(new Set(syllabusData.map(row => row[1])))
Units(syllabusData) == Distinct(Map(syllabusData, LAMBDA row : Cell(row, 1)))

UnitCompletion(syllabusData) ==
  LET units == Units(syllabusData)
  IN  [i \in 1..Len(units) |->
         LET unitTopics ==
               SelectSeq(syllabusData, LAMBDA row : Cell(row, 1) = units[i])
         IN  [unit |-> units[i],
              percentage |->
                RoundRatio(CountEq(unitTopics, 5, "Completed"), Len(unitTopics))]]

\* A topic group taken from the cell as it is, without a default.
TopicGroupOfCell(row) == Cell(row, 8)

\* row[8] || 'Other'
TopicGroupOf(row) == OrElse(Cell(row, 8), "Other")

\* Array.from(new Set(syllabusData.map(row => row[8] || 'Other')))
TopicGroups(syllabusData) == Distinct(Map(syllabusData, TopicGroupOf))

\* topicRows.reduce((sum, row) => sum + (parseInt(row[col]) || 0), 0)
HoursSum(topicRows, col) ==
  SumSeq(Map(topicRows, LAMBDA row : NumberOr(ParseNumber(Cell(row, col)), 0)))

\* Math.floor(planned * (0.8 + Math.random() * 0.4)), from a draw in thousandths.
SampleActual(planned, draw) == (planned * (8000 + 4 * draw)) \div 10000

TimeAllocation(syllabusData, e) ==
  LET topicGroups == TopicGroups(syllabusData)
      Rows(topic) == SelectSeq(syllabusData, LAMBDA row : TopicGroupOf(row) = topic)
  IN  [i \in 1..Len(topicGroups) |->
         LET planned == HoursSum(Rows(topicGroups[i]), 3)
             actual == HoursSum(Rows(topicGroups[i]), 4)
             drawsBefore ==
               Cardinality({j \in 1..(i - 1) : HoursSum(Rows(topicGroups[j]), 4) = 0})
         IN  [topic |-> topicGroups[i],
              planned |-> planned,
              actual |->
                IF actual # 0 THEN actual
                ELSE SampleActual(planned, Random(e, drawsBefore))]]

UpcomingTopics(topics) ==
  LET pending == Take(SelectSeq(topics, LAMBDA t : t.status = "Pending"), 5)
  IN  [i \in 1..Len(pending) |->
         [id |-> pending[i].id,
          name |-> pending[i].name,
          unit |-> pending[i].unit,
          plannedStart |-> OrElse(pending[i].startDate, "Next Week"),
          estimatedHours |-> pending[i].expectedHours]]

SyllabusView(d, e) ==
  LET syllabusData == Slice1(d[1])
      completed == SelectSeq(syllabusData, LAMBDA row : Cell(row, 5) = "Completed")
  IN  [completionPercentage |-> RoundRatio(Len(completed), Len(syllabusData)),
       completedUnits |-> Len(Units(completed)),
       totalUnits |-> Len(Units(syllabusData)),
       remainingDays |-> 45,
       topics |-> Map(syllabusData, TopicRecord),
       unitCompletion |-> UnitCompletion(syllabusData),
       timeAllocation |-> TimeAllocation(syllabusData, e),
       upcomingTopics |-> UpcomingTopics(Map(syllabusData, TopicRecord))]

----------------------------------------------------------------------------
\* GET /api/calendar-data

EventRecord(row) ==
  [id |-> Cell(row, 0),
   date |-> Cell(row, 1),
   title |-> Cell(row, 2),
   type |-> Cell(row, 3),
   time |-> OrElse(Cell(row, 4), "All Day"),
   description |-> OrElse(Cell(row, 5), "")]

\* type.toLowerCase() for the event types of the model's tables.
ToLowerCase(str) ==
  CASE str = "Exam" -> "exam"
    [] str = "Holiday" -> "holiday"
    [] str = "PTM" -> "ptm"
    [] OTHER -> str

\* The local day of the grid's cell: today.getDate() - today.getDay() + day
\* + week * 7 (week 0..4, day 0..6).
GridDay(e, week, day) == LocalDay(e) - GetDay(LocalDay(e)) + day + week * 7

GridDateStr(e, week, day) == ISOOfLocal(e, GridDay(e, week, day))

\* event.type.toLowerCase() raises a TypeError for an event without a type
\* whose date is the date string of a cell of the grid.
CalendarRaises(d, e) ==
  \E i \in 1..Len(Slice1(d[1])) :
    LET event == EventRecord(Slice1(d[1])[i])
    IN  /\ event.type = UNDEF
        /\ \E week \in 0..4, day \in 0..6 : event.date = GridDateStr(e, week, day)

DayEvents(events, dateStr) ==
  LET hits == SelectSeq(events, LAMBDA event : event.date = dateStr)
  IN  [i \in 1..Len(hits) |->
         [id |-> hits[i].id,
          title |-> hits[i].title,
          type |-> ToLowerCase(hits[i].type),
          time |-> hits[i].time]]

CalendarData(events, e) ==
  [w \in 1..5 |->
     [c \in 1..7 |->
        LET day == GridDay(e, w - 1, c - 1)
            dateStr == GridDateStr(e, w - 1, c - 1)
        IN  [date |-> GetDate(day),
             isCurrentMonth |-> GetMonth(day) = GetMonth(LocalDay(e)),
             isToday |-> dateStr = ISODate(e.today),
             events |-> DayEvents(events, dateStr)]]]

\* new Date(event.date) >= today: the event's date is parsed as UTC midnight
\* and today is the instant of the request.
OnOrAfterNow(event, e) ==
  /\ ParseDate(event.date) # NaN
  /\ \/ ParseDate(event.date) > e.today
     \/ ParseDate(event.date) = e.today /\ e.ms = 0

UpcomingEvents(events, e) ==
  Take(SortByDate(SelectSeq(events, LAMBDA event : OnOrAfterNow(event, e)), FALSE), 5)

CalendarView(d, e) ==
  LET events == Map(Slice1(d[1]), EventRecord)
  IN  [calendarData |-> CalendarData(events, e),
       upcomingEvents |-> UpcomingEvents(events, e)]

----------------------------------------------------------------------------
\* GET /api/communications-data

CommunicationRecord(row) ==
  [id |-> Cell(row, 0),
   date |-> Cell(row, 1),
   student |-> Cell(row, 2),
   parent |-> Cell(row, 3),
   type |-> Cell(row, 4),
   subject |-> Cell(row, 5),
   status |-> Cell(row, 6)]

ParentRecord(row) ==
  [id |-> Cell(row, 0),
   student |-> Cell(row, 1),
   name |-> Cell(row, 2),
   relation |-> Cell(row, 3),
   phone |-> Cell(row, 4),
   email |-> Cell(row, 5),
   lastContact |-> OrElse(Cell(row, 6), NULL)]

\* new Date(cell).getMonth(): the local month of UTC midnight of the cell's
\* day, which west of UTC is still the day before.
CellMonth(cell, e) ==
  IF ParseDate(cell) = NaN THEN NaN
  ELSE GetMonth(ParseDate(cell)
                  + (ZoneOffsetAtUTC(e.zone, ParseDate(cell), 0) * MinuteMs)
                      \div DayMs)

\* c[4] === 'Meeting' && new Date(c[1]).getMonth() === new Date().getMonth()
MeetingThisMonth(c, e) ==
  /\ Cell(c, 4) = "Meeting"
  /\ CellMonth(Cell(c, 1), e) # NaN
  /\ CellMonth(Cell(c, 1), e) = GetMonth(LocalDay(e))

CommunicationsView(d, e) ==
  LET communications == Slice1(d[1])
      parents == Slice1(d[2])
  IN  [parentMeetings |-> Count(communications, LAMBDA c : MeetingThisMonth(c, e)),
       pendingResponses |-> CountEq(communications, 6, "Pending"),
       nextPTM |-> [date |-> "Apr 20", time |-> "09:00 AM", day |-> "Saturday"],
       communicationLogs |-> Map(communications, CommunicationRecord),
       parentDirectory |-> Map(parents, ParentRecord)]

----------------------------------------------------------------------------
\* GET /api/student-details/:id

\* students.find(s => s[0] === studentId)
StudentFound(students, studentId) ==
  Found(students, LAMBDA st : Cell(st, 0) = studentId)

\* A lookup that takes the last matching row instead of the first.
PerformanceOfLast(performances, studentId) ==
  LET hits == SelectSeq(performances, LAMBDA p : Cell(p, 0) = studentId)
  IN  IF hits = <<>> THEN <<>> ELSE hits[Len(hits)]

\* performances.find(p => p[0] === studentId) || []
PerformanceOf(performances, studentId) ==
  IF Found(performances, LAMBDA p : Cell(p, 0) = studentId)
  THEN Find(performances, LAMBDA p : Cell(p, 0) = studentId)
  ELSE <<>>

DisciplineRecords(disciplines, studentId) ==
  LET hits == SelectSeq(disciplines, LAMBDA x : Cell(x, 3) = studentId)
  IN  [i \in 1..Len(hits) |->
         [id |-> Cell(hits[i], 0),
          date |-> Cell(hits[i], 1),
          incident |-> Cell(hits[i], 4),
          action |-> OrElse(Cell(hits[i], 5), "Verbal Warning")]]

StudentAchievements(achievements, student) ==
  LET hits == SelectSeq(achievements, LAMBDA a : Cell(a, 2) = Cell(student, 1))
  IN  [i \in 1..Len(hits) |-> Cell(hits[i], 3)]

StudentDetails(studentId, d) ==
  LET students == Slice1(d[1])
      performances == Slice1(d[2])
      disciplines == Slice1(d[3])
      achievements == Slice1(d[4])
      student == Find(students, LAMBDA st : Cell(st, 0) = studentId)
      performance == PerformanceOf(performances, studentId)
  IN  [rollNo |-> Cell(student, 0),
       name |-> Cell(student, 1),
       gender |-> Cell(student, 2),
       category |-> Cell(student, 3),
       serviceCategory |-> Cell(student, 4),
       contact |-> Cell(student, 5),
       class |-> OrElse(Cell(student, 6), "X-A"),
       performanceReport |->
         OrElse(Cell(performance, 6),
                "The student shows consistent effort in academics."),
       strengths |-> SplitTrim(Cell(performance, 3)),
       weaknesses |-> SplitTrim(Cell(performance, 4)),
       suggestions |-> SplitTrim(Cell(performance, 5)),
       disciplineRecords |-> DisciplineRecords(disciplines, studentId),
       achievements |-> StudentAchievements(achievements, student)]

StudentDetailsRespond(studentId, d) ==
  IF ~StudentFound(Slice1(d[1]), studentId)
  THEN Response(404, ErrorObject("Student not found"))
  ELSE Response(200, StudentDetails(studentId, d))


----------------------------------------------------------------------------
\* The handlers as one state machine

\* The code that runs once the last fetch has completed raises an exception
\* (caught by the handler's catch block).
Raises(e, param, d, en) ==
  CASE e = "teacher-data" -> TeacherRaises(param, d)
    [] e = "calendar-data" -> CalendarRaises(d, en)
    [] OTHER -> FALSE

\* The response the try block sends once the last fetch has completed.
TryRespond(e, param, d, en) ==
  CASE e = "auth" -> AuthRespond(param, d, en)
    [] e = "teacher-data" -> TeacherRespond(param, d)
    [] e = "dashboard-data" -> Response(200, DashboardView(d))
    [] e = "enrollment-data" -> Response(200, EnrollmentView(d))
    [] e = "categories-data" -> Response(200, CategoriesView(d))
    [] e = "performance-data" -> Response(200, PerformanceView(d))
    [] e = "workshops-data" -> Response(200, WorkshopsView(d, en))
    [] e = "discipline-data" -> Response(200, DisciplineView(d))
    [] e = "achievements-data" -> Response(200, AchievementsView(d))
    [] e = "attendance-data" -> Response(200, AttendanceView(d, en))
    [] e = "assessments-data" -> Response(200, AssessmentsView(d))
    [] e = "syllabus-data" -> Response(200, SyllabusView(d, en))
    [] e = "calendar-data" -> Response(200, CalendarView(d, en))
    [] e = "communications-data" -> Response(200, CommunicationsView(d, en))
    [] e = "student-details" -> StudentDetailsRespond(param, d)

\* try { ... } catch (error) { res.status(500).json(...) }
Respond(e, param, d, en) ==
  IF Raises(e, param, d, en) THEN CatchResponse(e)
  ELSE TryRespond(e, param, d, en)

\* The handler is entered: it validates its input (auth only) and requests
\* its first table.
Begin(r) ==
  /\ pc[r] = "received"
  /\ IF req[r].endpoint = "auth" /\ AuthRejects(req[r].param)
     THEN /\ sent' = [sent EXCEPT ![r] = Append(@, AuthBadRequest)]
          /\ pc' = [pc EXCEPT ![r] = "done"]
          /\ UNCHANGED issued
     ELSE /\ issued' = [issued EXCEPT ![r] = Append(@, Plan(req[r].endpoint)[1])]
          /\ pc' = [pc EXCEPT ![r] = "awaiting"]
          /\ UNCHANGED sent
  /\ UNCHANGED <<store, req, env, data, reads>>

\* The awaited fetch resolves with the rows of its range; the handler runs on
\* to its next await (requesting the next table) or, after its last fetch,
\* to its response.
FetchOk(r) ==
  /\ pc[r] = "awaiting"
  /\ LET e == req[r].endpoint
         k == Len(issued[r])
         d == Append(data[r], FetchRows(store, issued[r][k]))
     IN  /\ data' = [data EXCEPT ![r] = d]
         /\ reads' = [reads EXCEPT ![r] = @ \cup SegmentReads(e, k)]
         /\ IF k < Len(Plan(e))
            THEN /\ issued' = [issued EXCEPT ![r] = Append(@, Plan(e)[k + 1])]
                 /\ UNCHANGED <<pc, sent>>
            ELSE /\ sent' = [sent EXCEPT
                               ![r] = Append(@, Respond(e, req[r].param, d, env[r]))]
                 /\ pc' = [pc EXCEPT ![r] = "done"]
                 /\ UNCHANGED issued
  /\ UNCHANGED <<store, req, env>>

\* A handler that requests the rejected range again instead of giving up.
FetchFailRetry(r) ==
  /\ pc[r] = "awaiting"
  /\ issued' = [issued EXCEPT ![r] = Append(@, issued[r][Len(issued[r])])]
  /\ UNCHANGED <<store, req, env, pc, data, reads, sent>>

\* The awaited fetch rejects: control passes to the catch block.
FetchFail(r) ==
  /\ pc[r] = "awaiting"
  /\ sent' = [sent EXCEPT ![r] = Append(@, CatchResponse(req[r].endpoint))]
  /\ pc' = [pc EXCEPT ![r] = "done"]
  /\ UNCHANGED <<store, req, env, issued, data, reads>>

Next ==
  \/ \E r \in DOMAIN req : Begin(r)
  \/ \E r \in DOMAIN req : FetchOk(r)
  \/ \E r \in DOMAIN req : FetchFail(r)

\* The state in which the requests `rs` have been received and will observe
\* the clocks `es`, against the spreadsheet `st`.
Start(st, rs, es) ==
  /\ store = st
  /\ req = rs
  /\ env = es
  /\ pc = [r \in DOMAIN rs |-> "received"]
  /\ issued = [r \in DOMAIN rs |-> <<>>]
  /\ data = [r \in DOMAIN rs |-> <<>>]
  /\ reads = [r \in DOMAIN rs |-> {}]
  /\ sent = [r \in DOMAIN rs |-> <<>>]

Request(endpoint, param) == [endpoint |-> endpoint, param |-> param]

Clock(today, ms, zone, seed) ==
  [today |-> today, ms |-> ms, zone |-> zone, seed |-> seed]

Zone(before, after, changeDay, changeMinute) ==
  [before |-> before, after |-> after,
   changeDay |-> changeDay, changeMinute |-> changeMinute]


----------------------------------------------------------------------------
\* Spreadsheets and workloads the model is run on

\* The sequences over S of length at most n.
SeqsUpTo(S, n) == UNION {[1..k -> S] : k \in 0..n}

\* The tables with the given header and at most MaxRows data rows drawn from
\* rowSet, and the sheet without any row.
Tables(header, rowSet) ==
  {<<header>> \o rows : rows \in SeqsUpTo(rowSet, MaxRows)} \cup {<<>>}

AuthenticationHeader == <<"EmployeeID", "Name">>
TeachersHeader == <<"ID", "Name", "Subject", "Class", "Department">>
StudentsHeader ==
  <<"RollNo", "Name", "Gender", "Category", "ServiceCategory", "Contact", "Status">>
PerformanceHeader ==
  <<"ID", "Summary", "Category", "Strengths", "Weaknesses", "Suggestions", "Report">>
WorkshopsHeader ==
  <<"ID", "Title", "Duration", "Status", "SessionDates", "SessionTopics">>
DisciplineHeader == <<"ID", "Date", "Student", "RollNo", "Description", "Action">>
AchievementsHeader == <<"ID", "Date", "Student", "Title", "Description">>
AttendanceHeader == <<"ID", "Date", "StudentID", "Status", "Remarks">>
AssessmentsHeader == <<"ID", "Date", "Title", "Type", "MaxScore", "Status">>
GradesHeader == <<"AssessmentID", "StudentID", "Score", "Percentage", "Grade">>
SyllabusHeader ==
  <<"ID", "Unit", "Name", "ExpectedHours", "TimeSpent", "Status", "StartDate",
    "CompletionDate", "TopicGroup">>
EventsHeader == <<"ID", "Date", "Title", "Type", "Time", "Description">>
CommunicationsHeader ==
  <<"ID", "Date", "Student", "Parent", "Type", "Subject", "Status">>
ParentsHeader ==
  <<"ID", "Student", "Name", "Relation", "Phone", "Email", "LastContact">>

\* A spreadsheet whose rows all have every cell of their schema.
FullStore ==
  [sheet \in Sheets |->
     CASE sheet = "Authentication" ->
            <<AuthenticationHeader, <<"E1", "Asha">>, <<"E2", "Ravi">>>>
       [] sheet = "Teachers" ->
            <<TeachersHeader,
              <<"E1", "Asha", "Math", "X-A", "Science">>,
              <<"E2", "Ravi", "English", "X-B", "Arts">>>>
       [] sheet = "Students" ->
            <<StudentsHeader,
              <<"101", "Asha", "Female", "OBC", "2", "999", "Active">>,
              <<"102", "Ravi", "Male", "General", "1", "998", "Active">>>>
       [] sheet = "Performance" ->
            <<PerformanceHeader,
              <<"101", "Good", "Bright Learner", "Focus,Speed", "Grammar",
                "Read more", "Doing well">>,
              <<"102", "Average", "Late Bloomer", "Effort", "Focus, Speed",
                "Practice", "Needs support">>>>
       [] sheet = "Workshops" ->
            <<WorkshopsHeader,
              <<"W1", "Robotics", "2 days", "Completed", "Mar 1,Mar 2",
                "Intro,Practice">>,
              <<"W2", "Art", "Completed", "Scheduled", "Mar 1,Mar 2", "Intro">>>>
       [] sheet = "ServiceCourses" ->
            <<WorkshopsHeader,
              <<"K1", "First Aid", "1 day", "Ongoing", "Mar 1", "Intro">>>>
       [] sheet = "Discipline" ->
            <<DisciplineHeader,
              <<"D1", "2024-03-01", "Asha", "101", "Late", "Detention">>,
              <<"D2", "2024-03-02", "Asha", "101", "Noise", "Parent Call">>>>
       [] sheet = "Achievements" ->
            <<AchievementsHeader,
              <<"A1", "2024-03-01", "Asha", "Gold Medal", "Olympiad">>,
              <<"A2", "2024-03-02", "Ravi", "Best Speaker", "Debate">>>>
       [] sheet = "Attendance" ->
            <<AttendanceHeader,
              <<"T1", "2024-03-03", "101", "Present", "On time">>,
              <<"T2", "2024-03-03", "102", "Absent", "Sick">>,
              <<"T3", "2024-03-01", "101", "Present", "On time">>>>
       [] sheet = "Assessments" ->
            <<AssessmentsHeader,
              <<"S2", "2024-03-10", "Unit Test 2", "Test", "50", "Scheduled">>,
              <<"S1", "2024-03-01", "Unit Test 1", "Test", "50", "Completed">>>>
       [] sheet = "Grades" ->
            <<GradesHeader,
              <<"S1", "101", "40", "80", "A">>,
              <<"S1", "102", "30", "60", "C">>>>
       [] sheet = "Syllabus" ->
            <<SyllabusHeader,
              <<"1", "Unit 1", "Sets", "10", "8", "Completed", "2024-02-26",
                "2024-03-01", "Algebra">>,
              <<"2", "Unit 2", "Lines", "12", "0", "Pending", "2024-03-04",
                "2024-03-08", "Geometry">>>>
       [] sheet = "Events" ->
            <<EventsHeader,
              <<"V1", "2024-03-05", "Exam week", "Exam", "09:00", "Hall A">>,
              <<"V2", "2024-03-20", "Holi", "Holiday", "All Day", "Closed">>>>
       [] sheet = "Communications" ->
            <<CommunicationsHeader,
              <<"M1", "2024-03-02", "Asha", "Mrs Rao", "Meeting", "Progress",
                "Pending">>>>
       [] sheet = "Parents" ->
            <<ParentsHeader,
              <<"P1", "Asha", "Mrs Rao", "Mother", "555", "rao@x.org",
                "2024-03-02">>>>]

\* A spreadsheet of ragged rows: cells missing at the end of rows, empty
\* cells inside them, and rows without any cell.
RaggedStore ==
  [sheet \in Sheets |->
     CASE sheet = "Authentication" -> <<AuthenticationHeader, <<"E1">>, <<>>>>
       [] sheet = "Teachers" ->
            <<TeachersHeader, <<"E1", "Asha", "Math">>, <<>>>>
       [] sheet = "Students" ->
            <<StudentsHeader, <<"101", "Asha", "Female", "OBC">>, <<>>, <<"102">>>>
       [] sheet = "Performance" ->
            <<PerformanceHeader, <<"101", "", "Bright Learner">>, <<"102">>>>
       [] sheet = "Workshops" ->
            <<WorkshopsHeader, <<"W1", "Robotics">>, <<>>,
              <<"W2", "Art", "", "Ongoing", "Mar 1,Mar 2">>>>
       [] sheet = "ServiceCourses" -> <<WorkshopsHeader, <<"K1">>>>
       [] sheet = "Discipline" ->
            <<DisciplineHeader, <<"D1", "2024-03-01", "", "101">>, <<>>>>
       [] sheet = "Achievements" ->
            <<AchievementsHeader, <<"A1", "", "Asha">>, <<>>>>
       [] sheet = "Attendance" ->
            <<AttendanceHeader, <<"T1", "2024-03-03", "101">>, <<"T2">>, <<>>>>
       [] sheet = "Assessments" ->
            <<AssessmentsHeader, <<"S1">>,
              <<"S2", "2024-03-01", "", "", "", "Completed">>>>
       [] sheet = "Grades" -> <<GradesHeader, <<"S2", "101">>, <<>>>>
       [] sheet = "Syllabus" ->
            <<SyllabusHeader, <<"1", "Unit 1", "Sets", "10">>, <<>>,
              <<"3", "", "Lines", "", "", "Pending">>>>
       [] sheet = "Events" ->
            <<EventsHeader, <<"V1", "2024-03-05", "Sports day">>, <<>>>>
       [] sheet = "Communications" ->
            <<CommunicationsHeader, <<"M1", "", "", "", "Meeting">>, <<>>>>
       [] sheet = "Parents" -> <<ParentsHeader, <<"P1", "Asha">>, <<>>>>]

\* A spreadsheet whose sheets hold no row at all (values is undefined).
BlankStore == [sheet \in Sheets |-> <<>>]

\* The store with the given table in one sheet.
WithSheet(st, sheet, table) == [st EXCEPT ![sheet] = table]

\* 2024-03-03, a Sunday, and 2024-03-01, a Friday.
Sunday == CHOOSE d \in FirstDay..LastDay : ISODate(d) = "2024-03-03"
Friday == CHOOSE d \in FirstDay..LastDay : ISODate(d) = "2024-03-01"

\* Times of the day, in milliseconds.
HalfPastMidnight == 30 * MinuteMs
Noon == 12 * 60 * MinuteMs
HalfToMidnight == DayMs - 30 * MinuteMs

\* Time zones: UTC; America/New_York, where daylight saving began on
\* 2024-03-10 (02:00 became 03:00); Europe/Berlin, where it began on
\* 2024-03-31; Asia/Kolkata, without daylight saving.
UTC == Zone(0, 0, 0, 0)
NewYork == Zone(0 - 300, 0 - 240, Sunday + 7, 180)
Berlin == Zone(60, 120, Sunday + 28, 180)
Kolkata == Zone(330, 330, 0, 0)

----------------------------------------------------------------------------
\* Spec: NumReq concurrent requests to any endpoints against one snapshot.

SnapshotStores == {FullStore, RaggedStore, BlankStore}

Requests ==
  {Request(e, UNDEF) : e \in Endpoints \ {"student-details"}}
    \cup {Request("auth", "E1"), Request("auth", "E9"),
          Request("teacher-data", "E1"), Request("teacher-data", "E9"),
          Request("student-details", "101"), Request("student-details", "999")}

\* The requests that run beside the first one.
Companions ==
  {Request("dashboard-data", UNDEF), Request("teacher-data", UNDEF),
   Request("student-details", "101")}

Workloads ==
  {rs \in [1..NumReq -> Requests] : \A r \in 2..NumReq : rs[r] \in Companions}

Clocks == {Clock(Sunday, Noon, UTC, 0), Clock(Friday, HalfToMidnight + 29 * MinuteMs + 59999, UTC, 2)}

Init ==
  \E st \in SnapshotStores, rs \in Workloads, c \in Clocks :
    Start(st, rs, [r \in 1..NumReq |-> c])

Spec == Init /\ [][Next]_vars


----------------------------------------------------------------------------
\* SpecLookup: one keyed request (auth, teacher-data or student-details)
\* against every small table of the sheet its key is looked up in.

AuthRowInputs == {<<"E1", "Asha">>, <<"E2">>, <<>>}
TeacherRowInputs == {<<"E1", "Asha", "Math", "X-A", "Science">>, <<"E2", "Ravi">>, <<>>}
StudentRowInputs ==
  {<<"101", "Asha", "Female", "OBC", "2", "999", "X-B">>, <<"102", "Ravi">>, <<>>}

\* Missing, empty, known, unknown, and the text of the header's first cell.
EmployeeIds == {UNDEF, "", "E1", "E2", "E9", "EmployeeID"}
TeacherIds == {UNDEF, "", "E1", "E2", "E9", "ID"}
StudentIds == {"101", "102", "999", "RollNo"}

LookupCases ==
  {<<WithSheet(FullStore, "Authentication", t), Request("auth", id)>> :
     t \in Tables(AuthenticationHeader, AuthRowInputs), id \in EmployeeIds}
  \cup
  {<<WithSheet(FullStore, "Teachers", t), Request("teacher-data", id)>> :
     t \in Tables(TeachersHeader, TeacherRowInputs), id \in TeacherIds}
  \cup
  {<<WithSheet(FullStore, "Students", t), Request("student-details", id)>> :
     t \in Tables(StudentsHeader, StudentRowInputs), id \in StudentIds}

InitLookup ==
  \E c \in LookupCases : Start(c[1], <<c[2]>>, <<Clock(Sunday, Noon, UTC, 0)>>)

SpecLookup == InitLookup /\ [][Next]_vars

----------------------------------------------------------------------------
\* SpecAggregates: one request to an endpoint with a fixed-set aggregation,
\* against every small Students and Performance table (dashboard-data,
\* categories-data) or every small Grades table (assessments-data).

StudentAggregateInputs ==
  {<<"101", "Asha", "Female", "OBC", "2">>,
   <<"102", "Ravi", "Male", "Other", "9">>,
   <<"103", "Ira", "Female", "General">>,
   <<"104">>}
PerformanceAggregateInputs ==
  {<<"101", "Excellent", "Bright Learner">>, <<"102", "Poor">>, <<"103">>}
GradeInputs ==
  {<<"S1", "101", "45", "90", "A">>, <<"S1", "102", "20", "40", "F">>,
   <<"S1", "103", "30", "60", "E">>, <<"S1", "104">>}

AggregateCases ==
  {<<WithSheet(WithSheet(FullStore, "Students", ts), "Performance", tp),
     Request(e, UNDEF)>> :
     ts \in Tables(StudentsHeader, StudentAggregateInputs),
     tp \in Tables(PerformanceHeader, PerformanceAggregateInputs),
     e \in {"dashboard-data", "categories-data"}}
  \cup
  {<<WithSheet(FullStore, "Grades", tg), Request("assessments-data", UNDEF)>> :
     tg \in Tables(GradesHeader, GradeInputs)}

InitAggregates ==
  \E c \in AggregateCases : Start(c[1], <<c[2]>>, <<Clock(Sunday, Noon, UTC, 0)>>)

SpecAggregates == InitAggregates /\ [][Next]_vars

----------------------------------------------------------------------------
\* SpecSyllabus: one syllabus-data request against every small Syllabus
\* table: repeated and absent units, repeated, empty and absent topic groups,
\* and a topic group cell that reads 'Other'.

SyllabusInputs ==
  {<<"1", "Unit 1", "Sets", "10", "8", "Completed", "2024-02-20", "2024-02-25",
     "Algebra">>,
   <<"2", "Unit 2", "Lines", "6", "", "Pending", "", "", "Geometry">>,
   <<"3", "Unit 1", "Maps", "4", "", "Pending", "", "", "", "note">>,
   <<"4", "Unit 2", "Area", "5">>,
   <<"5">>,
   <<"6", "Unit 3", "Graphs", "2", "1", "Completed", "", "", "Other">>}

InitSyllabus ==
  \E t \in Tables(SyllabusHeader, SyllabusInputs), c \in Clocks :
    Start(WithSheet(FullStore, "Syllabus", t),
          <<Request("syllabus-data", UNDEF)>>, <<c>>)

SpecSyllabus == InitSyllabus /\ [][Next]_vars

----------------------------------------------------------------------------
\* SpecAttendance: one attendance-data request against every small
\* Attendance table, with rows inside and outside the last 7 days, present
\* and absent, on two days.

AttendanceInputs ==
  {<<"T1", "2024-03-03", "101", "Present">>,
   <<"T2", "2024-03-01", "102", "Absent">>,
   <<"T3", "2024-02-26", "101", "Present">>,
   <<"T4", "2024-02-25", "103", "Present">>,
   <<"T5", "2024-03-02", "101">>,
   <<"T6", "2024-03-10", "102", "Present">>,
   <<"T7", "2024-03-06", "102", "Present">>,
   <<>>}

\* The two clocks of Spec, and a server in New York on the evening of
\* 2024-03-12 (23:30 UTC), two days after its clocks changed.
AttendanceClocks == Clocks \cup {Clock(Sunday + 9, HalfToMidnight, NewYork, 1)}

InitAttendance ==
  \E t \in Tables(AttendanceHeader, AttendanceInputs), c \in AttendanceClocks :
    Start(WithSheet(FullStore, "Attendance", t),
          <<Request("attendance-data", UNDEF)>>, <<c>>)

SpecAttendance == InitAttendance /\ [][Next]_vars

----------------------------------------------------------------------------
\* SpecCalendar: one calendar-data request against every small Events table,
\* on each of nine consecutive days (every weekday, across the end of
\* February), on servers whose local day is behind, at and ahead of the UTC
\* day, two of them in zones whose clocks change inside the grid.

EventInputs ==
  {<<"V1", "2024-03-05", "Sports day", "Holiday", "10:00", "All school">>,
   <<"V2", "2024-03-05", "Exam 1", "Exam">>,
   <<"V3", "2024-02-25", "PTM", "PTM", "09:00">>,
   <<"V4", "2024-04-15", "Exam 2", "Exam">>,
   <<"V5", "2024-03-12", "Untyped">>,
   <<"V6", "2024-03-10", "Fair", "Holiday">>}

CalendarClocks ==
  {Clock(Sunday - 7 + i, Noon, UTC, 0) : i \in 0..8}
    \cup {Clock(Sunday - 7 + i, HalfPastMidnight, NewYork, 0) : i \in 0..8}
    \cup {Clock(Sunday - 7 + i, HalfPastMidnight, Berlin, 0) : i \in 0..8}
    \cup {Clock(Sunday - 7 + i, HalfToMidnight, Kolkata, 0) : i \in 0..8}

InitCalendar ==
  \E t \in Tables(EventsHeader, EventInputs), c \in CalendarClocks :
    Start(WithSheet(FullStore, "Events", t),
          <<Request("calendar-data", UNDEF)>>, <<c>>)

SpecCalendar == InitCalendar /\ [][Next]_vars

----------------------------------------------------------------------------
\* SpecAssessments: one assessments-data request against every small
\* Assessments table (scheduled and completed rows, equal and different
\* dates) and every small Grades table (positive, zero and non-numeric
\* percentages).

AssessmentInputs ==
  {<<"S1", "2024-03-01", "Unit Test 1", "Test", "50", "Completed">>,
   <<"S2", "2024-03-10", "Unit Test 2", "Test", "50", "Scheduled">>,
   <<"S3", "2024-03-10", "Quiz", "Quiz", "20", "Scheduled">>,
   <<"S4", "2024-03-05", "Mid Term", "Exam", "100", "Completed">>,
   <<"S5", "2024-03-05", "Project", "Work", "10", "Completed">>,
   <<"S6", "2024-03-08", "Oral", "Quiz", "10", "Scheduled">>}

AssessmentGradeInputs ==
  {<<"S1", "101", "40", "80", "B">>,
   <<"S4", "101", "0", "0", "F">>,
   <<"S4", "102", "", "absent", "F">>,
   <<"S5", "101", "6", "60", "C">>,
   <<"S5", "102", "7", "71", "B">>}

InitAssessments ==
  \E ta \in Tables(AssessmentsHeader, AssessmentInputs),
     tg \in Tables(GradesHeader, AssessmentGradeInputs) :
    Start(WithSheet(WithSheet(FullStore, "Assessments", ta), "Grades", tg),
          <<Request("assessments-data", UNDEF)>>, <<Clock(Sunday, Noon, UTC, 0)>>)

SpecAssessments == InitAssessments /\ [][Next]_vars

----------------------------------------------------------------------------
\* SpecUpcoming: one syllabus-data request against every small Syllabus
\* table of dated topics and against a table of six pending topics, or one
\* calendar-data request against every small Events table and against a
\* table of six coming events; the request is made on 2024-03-03.

DatedTopicInputs ==
  {<<"1", "Unit 1", "Sets", "10", "", "Pending", "2024-03-20">>,
   <<"2", "Unit 1", "Maps", "4", "", "Pending", "2024-03-10">>,
   <<"3", "Unit 2", "Lines", "6", "", "Pending", "2024-03-10">>,
   <<"4", "Unit 2", "Area", "5", "5", "Completed", "2024-02-20", "2024-02-25">>}

SixTopics ==
  <<SyllabusHeader,
    <<"11", "Unit 1", "Sets", "2", "", "Pending", "2024-03-16">>,
    <<"12", "Unit 1", "Maps", "2", "", "Pending", "2024-03-15">>,
    <<"13", "Unit 1", "Lines", "2", "", "Pending", "2024-03-14">>,
    <<"14", "Unit 2", "Area", "2", "", "Pending", "2024-03-13">>,
    <<"15", "Unit 2", "Graphs", "2", "", "Pending", "2024-03-12">>,
    <<"16", "Unit 2", "Ratios", "2", "", "Pending", "2024-03-11">>>>

DatedEventInputs ==
  {<<"V1", "2024-03-05", "Sports day", "Holiday">>,
   <<"V2", "2024-03-04", "Exam 1", "Exam">>,
   <<"V3", "2024-03-03", "PTM", "PTM">>,
   <<"V4", "2024-03-01", "Exam 0", "Exam">>,
   <<"V5", "2024-03-04", "Exam 2", "Exam">>}

SixEvents ==
  <<EventsHeader,
    <<"V11", "2024-03-16", "Exam 6", "Exam">>,
    <<"V12", "2024-03-15", "Exam 5", "Exam">>,
    <<"V13", "2024-03-14", "Exam 4", "Exam">>,
    <<"V14", "2024-03-13", "Exam 3", "Exam">>,
    <<"V15", "2024-03-12", "Exam 2", "Exam">>,
    <<"V16", "2024-03-11", "Exam 1", "Exam">>>>

UpcomingCases ==
  {<<WithSheet(FullStore, "Syllabus", t), Request("syllabus-data", UNDEF)>> :
     t \in Tables(SyllabusHeader, DatedTopicInputs) \cup {SixTopics}}
  \cup
  {<<WithSheet(FullStore, "Events", t), Request("calendar-data", UNDEF)>> :
     t \in Tables(EventsHeader, DatedEventInputs) \cup {SixEvents}}

InitUpcoming ==
  \E c \in UpcomingCases : Start(c[1], <<c[2]>>, <<Clock(Sunday, Noon, UTC, 0)>>)

SpecUpcoming == InitUpcoming /\ [][Next]_vars

----------------------------------------------------------------------------
\* SpecJoins: two equal requests (student-details for one id, or
\* performance-data) against one snapshot, over every small pair of joined
\* tables: duplicate keys, keys without a match, short rows, repeated rows.

JoinStudentInputs ==
  {<<"101", "Asha", "Female", "OBC", "2", "999", "X-B">>,
   <<"101", "Asha II", "Female", "SC">>,
   <<"101">>}

JoinPerformanceInputs ==
  {<<"101", "Good", "Bright Learner", "Focus,Speed", "Grammar", "Read more",
     "Steady progress.">>,
   <<"101", "Weak", "Late Bloomer", "Art">>,
   <<"103", "Fair", "Bright Learner">>}

JoinDisciplineInputs ==
  {<<"D1", "2024-03-01", "Asha", "101", "Late">>,
   <<"D2", "2024-03-02", "Asha", "101", "Noise", "Detention">>,
   <<"D3", "2024-03-02", "Ravi", "102">>}

JoinAchievementInputs ==
  {<<"A1", "2024-02-01", "Asha", "Gold Medal">>,
   <<"A2", "2024-02-02", "Ravi", "Chess">>,
   <<"A3", "2024-02-04">>}

JoinCases ==
  {<<WithSheet(WithSheet(FullStore, "Students", ts), "Performance", tp), q>> :
     ts \in Tables(StudentsHeader, JoinStudentInputs),
     tp \in Tables(PerformanceHeader, JoinPerformanceInputs),
     q \in {Request("student-details", "101"), Request("performance-data", UNDEF)}}
  \cup
  {<<WithSheet(WithSheet(WithSheet(FullStore, "Students", ts), "Discipline", td),
               "Achievements", ta),
     Request("student-details", "101")>> :
     ts \in {<<StudentsHeader, <<"101", "Asha">>, <<"101", "Ravi">>>>,
             <<StudentsHeader, <<"101">>>>},
     td \in Tables(DisciplineHeader, JoinDisciplineInputs),
     ta \in Tables(AchievementsHeader, JoinAchievementInputs)}

InitJoins ==
  \E c \in JoinCases :
    Start(c[1], <<c[2], c[2]>>, <<Clock(Sunday, Noon, UTC, 0), Clock(Sunday, Noon, UTC, 0)>>)

SpecJoins == InitJoins /\ [][Next]_vars

----------------------------------------------------------------------------
\* Vocabulary of the properties

\* Request r ended because one of its fetches rejected.
Failed(r) == pc[r] = "done" /\ Len(data[r]) < Len(issued[r])

\* Every fetch of request r's handler has completed.
AllFetched(r) == Len(data[r]) = Len(Plan(req[r].endpoint))

\* Request r's handler raised after its last fetch.
Raised(r) ==
  /\ pc[r] = "done"
  /\ AllFetched(r)
  /\ Raises(req[r].endpoint, req[r].param, data[r], env[r])

\* The body is exactly {success: false, message}.
IsErrorObject(body) == DOMAIN body = {"success", "message"} /\ body.success = FALSE

\* The body has every field of the endpoint's view model and no other.
IsFullView(e, body) == DOMAIN body = ViewFields(e) /\ ~IsErrorObject(body)

\* Request r has ended with exactly one response, of the given status.
EndedWith(r, status) ==
  pc[r] = "done" /\ Len(sent[r]) = 1 /\ sent[r][1].status = status

\* The tables request r's handler gets when all its fetches succeed.
OwnTables(r) ==
  [i \in 1..Len(Plan(req[r].endpoint)) |->
     FetchRows(store, Plan(req[r].endpoint)[i])]

----------------------------------------------------------------------------
\* C1: every request gets exactly one response, which is either the
\* endpoint's full view model with status 200 or a single error object
\* {success:false, message}; when a fetch of the request fails or the
\* handler's code raises, the response is 500 with the error object and
\* carries no field of the view model.
C1_OneResponseFullOrError ==
  \A r \in DOMAIN req :
    /\ Len(sent[r]) = (IF pc[r] = "done" THEN 1 ELSE 0)
    /\ \A i \in 1..Len(sent[r]) :
         \/ sent[r][i].status = 200 /\ IsFullView(req[r].endpoint, sent[r][i].body)
         \/ sent[r][i].status # 200 /\ IsErrorObject(sent[r][i].body)
    /\ (Failed(r) \/ Raised(r)) =>
         /\ EndedWith(r, 500)
         /\ IsErrorObject(sent[r][1].body)

\* One request failed on a fetch after an earlier table had arrived, and
\* another one raised in its own code; both were answered 500.
C1_Witness ==
  \E r1, r2 \in DOMAIN req :
    /\ Failed(r1) /\ data[r1] # <<>> /\ EndedWith(r1, 500)
    /\ Raised(r2) /\ EndedWith(r2, 500)

\* C2: in a multi-fetch endpoint, when the k-th fetch fails no later fetch
\* is ever issued for the request, no range is requested twice (the failed
\* fetch is not retried), and the request ends with a 500 response.
C2_FailedState ==
  \A r \in DOMAIN req :
    Len(Plan(req[r].endpoint)) > 1 =>
      /\ \A i, j \in 1..Len(issued[r]) : issued[r][i] = issued[r][j] => i = j
      /\ Failed(r) =>
           /\ issued[r] = SubSeq(Plan(req[r].endpoint), 1, Len(data[r]) + 1)
           /\ EndedWith(r, 500)

C2_FailedStep ==
  \A r \in DOMAIN req :
    Failed(r) => issued'[r] = issued[r] /\ sent'[r] = sent[r] /\ pc'[r] = "done"

C2_FailureAborts == []C2_FailedState /\ [][C2_FailedStep]_vars

\* A request whose second or later fetch failed while it still had tables
\* left to fetch.
C2_Witness ==
  \E r \in DOMAIN req :
    /\ Failed(r)
    /\ data[r] # <<>>
    /\ Len(issued[r]) < Len(Plan(req[r].endpoint))

\* C3: within a request the fetches are issued in source order, each only
\* after the one before it has completed; the handler's code reads only
\* tables already fetched; a 200 is sent only after all fetches completed;
\* and whatever the other requests do, the request gets the tables and the
\* response it would get alone.
C3_SequentialIndependent ==
  \A r \in DOMAIN req :
    /\ Len(issued[r]) <= Len(Plan(req[r].endpoint))
    /\ issued[r] = SubSeq(Plan(req[r].endpoint), 1, Len(issued[r]))
    /\ Len(data[r]) <= Len(issued[r]) /\ Len(issued[r]) <= Len(data[r]) + 1
    /\ reads[r] \subseteq {issued[r][i].sheet : i \in 1..Len(data[r])}
    /\ \A i \in 1..Len(sent[r]) : sent[r][i].status = 200 => AllFetched(r)
    /\ \A i \in 1..Len(data[r]) : data[r][i] = OwnTables(r)[i]
    /\ (pc[r] = "done" /\ AllFetched(r)) =>
         sent[r] = <<Respond(req[r].endpoint, req[r].param, OwnTables(r), env[r])>>

\* Two requests are in flight at once, one of them past a stretch of code
\* that read a table and waiting for its next fetch.
C3_Witness ==
  \E r1, r2 \in DOMAIN req :
    /\ r1 # r2
    /\ pc[r1] = "awaiting" /\ reads[r1] # {}
    /\ pc[r2] = "awaiting" /\ data[r2] # <<>>


\* Request r carries a key: it is neither missing nor empty.
HasKey(r) == req[r].param # UNDEF /\ req[r].param # ""

\* Row i of the table has request r's key in its first cell.
KeyInRow(table, i, r) == Len(table[i]) >= 1 /\ table[i][1] = req[r].param

\* Some row of the sheet, the header row included, has r's key.
KeyInAnyRow(sheet, r) ==
  \E i \in 1..Len(store[sheet]) : KeyInRow(store[sheet], i, r)

\* Some data row of the sheet (any row but row 0) has r's key.
KeyInDataRow(sheet, r) ==
  \E i \in 2..Len(store[sheet]) : KeyInRow(store[sheet], i, r)

\* Request r has run to its end with all its fetches completed.
Served(r) == pc[r] = "done" /\ AllFetched(r)

----------------------------------------------------------------------------
\* C4: POST /api/auth answers 400 without fetching when employeeId is
\* missing or empty; 401 with success:false when employeeId is present and no
\* row of the Authentication table has it as first cell; 200 with
\* success:true and a token when some row has it; and 500 only when the
\* fetch fails.
C4_AuthStatuses ==
  \A r \in DOMAIN req :
    req[r].endpoint = "auth" =>
      /\ ~HasKey(r) => issued[r] = <<>> /\ (pc[r] = "done" => EndedWith(r, 400))
      /\ (HasKey(r) /\ Served(r) /\ ~KeyInAnyRow("Authentication", r)) =>
           EndedWith(r, 401) /\ sent[r][1].body.success = FALSE
      /\ (HasKey(r) /\ Served(r) /\ KeyInAnyRow("Authentication", r)) =>
           /\ EndedWith(r, 200)
           /\ sent[r][1].body.success = TRUE
           /\ "token" \in DOMAIN sent[r][1].body
      /\ \A i \in 1..Len(sent[r]) :
           /\ sent[r][i].status \in {200, 400, 401, 500}
           /\ sent[r][i].status = 500 <=> Failed(r)

\* An employeeId that no row carries, looked up in a table that has data
\* rows, was answered 401.
C4_Witness ==
  \E r \in DOMAIN req :
    /\ req[r].endpoint = "auth" /\ HasKey(r)
    /\ Len(store["Authentication"]) > 1
    /\ Served(r) /\ EndedWith(r, 401)

\* C5: row 0 of a table is a header and is never matched by a key lookup:
\* a key that no data row carries is answered as unknown (401 by auth, 404
\* by teacher-data and student-details), even when it equals the first
\* cell of the header row.
C5_HeaderNeverMatched ==
  \A r \in DOMAIN req :
    /\ (req[r].endpoint = "auth" /\ HasKey(r) /\ Served(r)
          /\ ~KeyInDataRow("Authentication", r)) => EndedWith(r, 401)
    /\ (req[r].endpoint = "teacher-data" /\ HasKey(r) /\ Served(r)
          /\ ~KeyInDataRow("Teachers", r)) => EndedWith(r, 404)
    /\ (req[r].endpoint = "student-details" /\ Served(r)
          /\ ~KeyInDataRow("Students", r)) => EndedWith(r, 404)

\* C6: teacher-data with an id that no Teachers data row carries answers
\* 404 'Teacher not found'; student-details with an id that no Students data
\* row carries answers 404 'Student not found', after all four fetches;
\* teacher-data without an id answers 200 with the first data row, and 500
\* when the table has no data row.
C6_LookupMisses ==
  \A r \in DOMAIN req :
    /\ (req[r].endpoint = "teacher-data" /\ Served(r)) =>
         /\ (HasKey(r) /\ ~KeyInDataRow("Teachers", r)) =>
              /\ EndedWith(r, 404)
              /\ sent[r][1].body = ErrorObject("Teacher not found")
         /\ (~HasKey(r) /\ Len(store["Teachers"]) >= 2) =>
              /\ EndedWith(r, 200)
              /\ sent[r][1].body.id = Cell(store["Teachers"][2], 0)
              /\ sent[r][1].body.name = Cell(store["Teachers"][2], 1)
              /\ sent[r][1].body.subject = Cell(store["Teachers"][2], 2)
              /\ sent[r][1].body.class = Cell(store["Teachers"][2], 3)
         /\ (~HasKey(r) /\ Len(store["Teachers"]) < 2) => EndedWith(r, 500)
    /\ (req[r].endpoint = "student-details" /\ Served(r)
          /\ ~KeyInDataRow("Students", r)) =>
         /\ EndedWith(r, 404)
         /\ sent[r][1].body = ErrorObject("Student not found")
    /\ (req[r].endpoint = "student-details" /\ pc[r] = "done"
          /\ sent[r][1].status = 404) => Len(data[r]) = 4

\* teacher-data was asked without an id of a table without a data row and
\* answered 500.
C6_Witness ==
  \E r \in DOMAIN req :
    /\ req[r].endpoint = "teacher-data" /\ ~HasKey(r)
    /\ Len(store["Teachers"]) < 2
    /\ Served(r) /\ EndedWith(r, 500)


\* The endpoints that answer a lookup by key.
LookupEndpoints == {"auth", "teacher-data", "student-details"}

\* Every table of request r has a header row and at least one data row.
HasDataRows(r) == \A i \in 1..Len(OwnTables(r)) : Len(OwnTables(r)[i]) >= 2

\* C7: for every endpoint, when every fetched table has data rows, however
\* short each row is, mapping the rows never raises: the request never ends
\* with a 500, and every endpoint that is not a lookup by key ends with its
\* 200 view model. This includes calendar-data with an Events row inside the
\* grid that has no type cell.
C7_RaggedRowsNeverRaise ==
  \A r \in DOMAIN req :
    (Served(r) /\ HasDataRows(r)) =>
      /\ ~EndedWith(r, 500)
      /\ req[r].endpoint \notin LookupEndpoints =>
           EndedWith(r, 200) /\ IsFullView(req[r].endpoint, sent[r][1].body)


\* The data rows of the i-th table request r fetches.
DataRows(r, i) == Slice1(OwnTables(r)[i])

\* The number of rows whose cell in the (zero-based) column is the value.
Occurrences(rows, col, v) ==
  Cardinality({j \in 1..Len(rows) : Len(rows[j]) > col /\ rows[j][col + 1] = v})

\* Every row has in the column one of the labels.
AllAmong(rows, col, labels) ==
  \A j \in 1..Len(rows) :
    Len(rows[j]) > col /\ \E i \in 1..Len(labels) : rows[j][col + 1] = labels[i]

\* The sum of the counts of the first n entries.
RECURSIVE CountSum(_, _)
CountSum(entries, n) ==
  IF n = 0 THEN 0 ELSE entries[n].count + CountSum(entries, n - 1)

\* One entry per label, in the enumeration's order, and no other entry.
OneEntryPerLabel(entries, field, labels) ==
  /\ Len(entries) = Len(labels)
  /\ \A i \in 1..Len(labels) :
       DOMAIN entries[i] = {field, "count"} /\ entries[i][field] = labels[i]

\* The counts sum to at most the number of rows, and to exactly that number
\* if and only if every row has one of the labels.
SumAtMostRows(entries, rows, col, labels) ==
  /\ CountSum(entries, Len(entries)) <= Len(rows)
  /\ CountSum(entries, Len(entries)) = Len(rows) <=> AllAmong(rows, col, labels)

\* Each entry counts the rows that carry its label.
TrueCounts(entries, rows, col, labels) ==
  \A i \in 1..Len(labels) : entries[i].count = Occurrences(rows, col, labels[i])

\* The fixed-set aggregations without a fallback, in request r's response.
PlainAggregationsHold(r) ==
  LET body == sent[r][1].body
  IN  /\ req[r].endpoint = "dashboard-data" =>
           /\ OneEntryPerLabel(body.categories, "category", CasteLabels)
           /\ TrueCounts(body.categories, DataRows(r, 1), 3, CasteLabels)
           /\ SumAtMostRows(body.categories, DataRows(r, 1), 3, CasteLabels)
           /\ OneEntryPerLabel(body.performance, "name", PerformanceLabels)
           /\ TrueCounts(body.performance, DataRows(r, 2), 1, PerformanceLabels)
           /\ SumAtMostRows(body.performance, DataRows(r, 2), 1, PerformanceLabels)
      /\ req[r].endpoint = "categories-data" =>
           /\ OneEntryPerLabel(body.casteCategories, "name", CasteLabels)
           /\ TrueCounts(body.casteCategories, DataRows(r, 1), 3, CasteLabels)
           /\ SumAtMostRows(body.casteCategories, DataRows(r, 1), 3, CasteLabels)
           /\ OneEntryPerLabel(body.serviceCategories, "category", ServiceLabels)
           /\ TrueCounts(body.serviceCategories, DataRows(r, 1), 4, ServiceLabels)
           /\ SumAtMostRows(body.serviceCategories, DataRows(r, 1), 4, ServiceLabels)

\* C8 as stated: every fixed-set aggregation, gradeDistribution included,
\* has one entry per enumerated label and no other, and its counts sum to at
\* most the number of data rows, with equality exactly when every row's
\* value is an enumerated label.
C8_CountsSumAtMostRows ==
  \A r \in DOMAIN req :
    (Served(r) /\ EndedWith(r, 200)) =>
      /\ PlainAggregationsHold(r)
      /\ req[r].endpoint = "assessments-data" =>
           /\ OneEntryPerLabel(sent[r][1].body.gradeDistribution, "grade", GradeLabels)
           /\ SumAtMostRows(sent[r][1].body.gradeDistribution,
                            DataRows(r, 2), 4, GradeLabels)

\* C8, amended: every fixed-set aggregation has one entry per enumerated
\* label and no other. For dashboard-data categories and performance and
\* categories-data casteCategories and serviceCategories each count is the
\* number of data rows carrying the label, so the counts sum to at most the
\* number of data rows, with equality exactly when every row's value is an
\* enumerated label. For gradeDistribution each count is the number of
\* Grades data rows carrying the grade when that number is positive, and
\* otherwise the fallback literal of the grade (A:5, B:12, C:18, D:8, F:2).
C8_CountsOrGradeFallback ==
  \A r \in DOMAIN req :
    (Served(r) /\ EndedWith(r, 200)) =>
      /\ PlainAggregationsHold(r)
      /\ req[r].endpoint = "assessments-data" =>
           LET entries == sent[r][1].body.gradeDistribution
               literal == [A |-> 5, B |-> 12, C |-> 18, D |-> 8, F |-> 2]
           IN  /\ OneEntryPerLabel(entries, "grade", GradeLabels)
               /\ \A i \in 1..Len(GradeLabels) :
                    LET n == Occurrences(DataRows(r, 2), 4, GradeLabels[i])
                    IN  entries[i].count = IF n > 0 THEN n ELSE literal[GradeLabels[i]]

\* assessments-data was answered for two Grades rows, one with grade A and
\* none with grade B: A is counted and B takes its fallback literal.
C8_Witness ==
  \E r \in DOMAIN req :
    /\ req[r].endpoint = "assessments-data"
    /\ Served(r) /\ EndedWith(r, 200)
    /\ Len(DataRows(r, 2)) = 2
    /\ sent[r][1].body.gradeDistribution[1].count = 1
    /\ sent[r][1].body.gradeDistribution[2].count = 12

\* The value observed in the (zero-based) column of a row: the cell, or
\* undefined for a row that ends before the column.
Observed(row, col) == IF Len(row) > col THEN row[col + 1] ELSE UNDEF

\* The topic group of a row: the cell in column 8, or 'Other' when the cell
\* is absent or empty.
GroupOrOther(row) ==
  IF Len(row) > 8 /\ row[9] # "" THEN row[9] ELSE "Other"

\* The index of the first row whose value is v.
FirstRowWith(rows, Value(_), v) ==
  CHOOSE j \in 1..Len(rows) :
    Value(rows[j]) = v /\ \A k \in 1..(j - 1) : Value(rows[k]) # v

\* The labels are the distinct values of the rows, each once, in order of
\* first occurrence.
DistinctInOrder(labels, rows, Value(_)) ==
  /\ \A i, k \in 1..Len(labels) : i # k => labels[i] # labels[k]
  /\ {labels[i] : i \in 1..Len(labels)} = {Value(rows[j]) : j \in 1..Len(rows)}
  /\ \A i, k \in 1..Len(labels) :
       i < k => FirstRowWith(rows, Value, labels[i]) < FirstRowWith(rows, Value, labels[k])

\* The labels of the unitCompletion and timeAllocation entries of a body.
UnitLabels(body) ==
  [i \in 1..Len(body.unitCompletion) |-> body.unitCompletion[i].unit]
TopicLabels(body) ==
  [i \in 1..Len(body.timeAllocation) |-> body.timeAllocation[i].topic]

\* C9 as stated: the labels of unitCompletion and of timeAllocation are
\* exactly the distinct values observed in the unit column and in the
\* topicGroup column of the Syllabus data rows, each once, in order of first
\* occurrence; no label is reported that the column does not hold.
C9_LabelsAreColumnValues ==
  \A r \in DOMAIN req :
    (req[r].endpoint = "syllabus-data" /\ Served(r) /\ EndedWith(r, 200)) =>
      /\ DistinctInOrder(UnitLabels(sent[r][1].body), DataRows(r, 1),
                         LAMBDA row : Observed(row, 1))
      /\ DistinctInOrder(TopicLabels(sent[r][1].body), DataRows(r, 1),
                         LAMBDA row : Observed(row, 8))

\* C9, amended: the labels of unitCompletion are exactly the distinct values
\* observed in the unit column of the Syllabus data rows, and the labels of
\* timeAllocation are exactly the distinct topic groups of the rows, where a
\* row whose topicGroup cell is absent or empty has the topic group 'Other';
\* each label appears once, in order of first occurrence. 'Other' is
\* reported for such rows although no cell of the column holds it.
C9_LabelsAreGroupsOrOther ==
  \A r \in DOMAIN req :
    (req[r].endpoint = "syllabus-data" /\ Served(r) /\ EndedWith(r, 200)) =>
      /\ DistinctInOrder(UnitLabels(sent[r][1].body), DataRows(r, 1),
                         LAMBDA row : Observed(row, 1))
      /\ DistinctInOrder(TopicLabels(sent[r][1].body), DataRows(r, 1), GroupOrOther)

\* syllabus-data was answered for two rows, the first with a topic group and
\* the second without the cell: timeAllocation has the group and then 'Other'.
C9_Witness ==
  \E r \in DOMAIN req :
    /\ req[r].endpoint = "syllabus-data"
    /\ Served(r) /\ EndedWith(r, 200)
    /\ Len(DataRows(r, 1)) = 2
    /\ Len(DataRows(r, 1)[2]) <= 8
    /\ TopicLabels(sent[r][1].body) = <<"Algebra", "Other">>


\* The Attendance data rows of request r whose date is one of the 7
\* calendar dates ending on the day of the request.
WeekRows(r) ==
  LET rows == DataRows(r, 1)
  IN  {j \in 1..Len(rows) :
         Len(rows[j]) > 1
           /\ \E i \in 0..6 : rows[j][2] = ISODate(env[r].today - i)}

\* Those of them whose status is 'Present'.
WeekPresent(r) ==
  {j \in WeekRows(r) : Len(DataRows(r, 1)[j]) > 3 /\ DataRows(r, 1)[j][4] = "Present"}

\* round(100 * p / t) for t > 0, halves rounded up.
RoundedPercent(p, t) ==
  CHOOSE q \in 0..100 : 2 * t * q <= 200 * p + t /\ 200 * p + t < 2 * t * (q + 1)

\* C10: weeklyAverage of attendance-data is round(100*p/t) whenever the
\* last 7 days hold t > 0 Attendance rows, p of them 'Present' (0 <= p <= t),
\* and is the constant 90 when t = 0.
C10_WeeklyAverage ==
  \A r \in DOMAIN req :
    (req[r].endpoint = "attendance-data" /\ Served(r) /\ EndedWith(r, 200)) =>
      LET t == Cardinality(WeekRows(r))
          p == Cardinality(WeekPresent(r))
      IN  sent[r][1].body.weeklyAverage =
            IF t > 0 THEN RoundedPercent(p, t) ELSE 90


\* Request r has been answered 200 after all its fetches.
Answered(r, endpoint) ==
  req[r].endpoint = endpoint /\ Served(r) /\ EndedWith(r, 200)

\* C11: every percentage field of a 200 response (attendance weeklyAverage,
\* each attendanceTrend point, each per-student attendance percentage,
\* syllabus completionPercentage, each unitCompletion percentage) is a
\* defined integer, a default standing in when the denominator is 0; this
\* includes completionPercentage for a Syllabus table without data rows.
C11_PercentagesDefined ==
  \A r \in DOMAIN req :
    /\ Answered(r, "attendance-data") =>
         LET body == sent[r][1].body
         IN  /\ body.weeklyAverage \in Nat
             /\ \A i \in 1..Len(body.attendanceTrend) :
                  body.attendanceTrend[i].percentage \in Nat
             /\ \A i \in 1..Len(body.students) :
                  body.students[i].percentage \in Nat
    /\ Answered(r, "syllabus-data") =>
         LET body == sent[r][1].body
         IN  /\ body.completionPercentage \in Nat
             /\ \A i \in 1..Len(body.unitCompletion) :
                  body.unitCompletion[i].percentage \in Nat


\* The Attendance data rows of request r dated d days before its today.
RowsOfDayBefore(r, d) ==
  {j \in 1..Len(DataRows(r, 1)) :
     Len(DataRows(r, 1)[j]) > 1
       /\ DataRows(r, 1)[j][2] = ISODate(env[r].today - d)}

\* Those of a set of Attendance rows whose status is 'Present'.
PresentAmong(r, rows) ==
  {j \in rows : Len(DataRows(r, 1)[j]) > 3 /\ DataRows(r, 1)[j][4] = "Present"}

\* The month/day label of a day.
ShortDate(day) == ToString(Civil(day).month) \o "/" \o ToString(Civil(day).day)

\* C12: attendanceTrend has exactly 7 points, one per calendar date from
\* today-6 to today in ascending order; a date with Attendance rows has the
\* point round(100*present/total) of its rows, and a date without rows has
\* an integer point in the closed range [85, 94] whatever the random source
\* returns.
C12_TrendPoints ==
  \A r \in DOMAIN req :
    Answered(r, "attendance-data") =>
      LET trend == sent[r][1].body.attendanceTrend
      IN  /\ Len(trend) = 7
          /\ \A n \in 1..7 :
               LET rows == RowsOfDayBefore(r, 7 - n)
               IN  /\ trend[n].date = ShortDate(env[r].today - (7 - n))
                   /\ rows # {} =>
                        trend[n].percentage =
                          RoundedPercent(Cardinality(PresentAmong(r, rows)),
                                         Cardinality(rows))
                   /\ rows = {} => trend[n].percentage \in 85..94


\* The server's local calendar day of request r.
LocalToday(r) == LocalDay(env[r])

\* The Sunday on or before the local day of request r (day 3 was a Sunday).
SundayBefore(r) ==
  CHOOSE s \in (LocalToday(r) - 6)..LocalToday(r) : (s - 3) % 7 = 0

\* The calendar day of cell c (1..7) of week w (1..5) of request r's grid.
CellDay(r, w, c) == SundayBefore(r) + 7 * (w - 1) + (c - 1)

\* The Events data rows of request r whose date string is the date of the
\* cell, in row order.
CellRows(r, w, c) ==
  SelectSeq(DataRows(r, 1),
            LAMBDA row : Len(row) > 1 /\ row[2] = ISODate(CellDay(r, w, c)))

\* C13: for every today, calendarData has exactly 5 weeks of exactly 7
\* cells, the cells are 35 consecutive calendar dates starting at the Sunday
\* on or before today, exactly one cell has isToday = true, the cell whose
\* date is today, and each cell's events are exactly the Events data rows
\* whose date string equals the cell's, in row order.
C13_CalendarGrid ==
  \A r \in DOMAIN req :
    Answered(r, "calendar-data") =>
      LET grid == sent[r][1].body.calendarData
      IN  /\ Len(grid) = 5
          /\ \A w \in 1..5 : Len(grid[w]) = 7
          /\ \A w \in 1..5, c \in 1..7 :
               /\ grid[w][c].date = Civil(CellDay(r, w, c)).day
               /\ grid[w][c].isToday <=> CellDay(r, w, c) = LocalToday(r)
               /\ Len(grid[w][c].events) = Len(CellRows(r, w, c))
               /\ \A i \in 1..Len(CellRows(r, w, c)) :
                    /\ grid[w][c].events[i].id = CellRows(r, w, c)[i][1]
                    /\ grid[w][c].events[i].title = CellRows(r, w, c)[i][3]
          /\ Cardinality({<<w, c>> \in (1..5) \X (1..7) : grid[w][c].isToday}) = 1


\* The indices of the Assessments data rows of request r with the status.
WithStatus(r, status) ==
  {j \in 1..Len(DataRows(r, 1)) : Observed(DataRows(r, 1)[j], 5) = status}

\* The Grades data rows of request r for the j-th Assessments data row.
GradesOf(r, j) ==
  {g \in 1..Len(DataRows(r, 2)) :
     Observed(DataRows(r, 2)[g], 0) = Observed(DataRows(r, 1)[j], 0)}

\* The day of the j-th Assessments data row of request r.
AssessmentDay(r, j) == ParseDate(Observed(DataRows(r, 1)[j], 1))

\* A percentage cell as a number: 0 when it holds no number.
PercentOf(row) ==
  IF \E n \in 0..MaxCellNumber : ToString(n) = Observed(row, 3)
  THEN CHOOSE n \in 0..MaxCellNumber : ToString(n) = Observed(row, 3)
  ELSE 0

\* The sum of the percentages of a set of Grades rows of request r.
RECURSIVE PercentSum(_, _)
PercentSum(r, gs) ==
  IF gs = {} THEN 0
  ELSE LET g == CHOOSE x \in gs : TRUE
       IN  PercentOf(DataRows(r, 2)[g]) + PercentSum(r, gs \ {g})

\* The rounded mean percentage of the grades of the j-th assessment.
MeanPercent(r, j) ==
  LET n == Cardinality(GradesOf(r, j))
      total == PercentSum(r, GradesOf(r, j))
  IN  CHOOSE q \in 0..MaxCellNumber :
        2 * n * q <= 2 * total + n /\ 2 * total + n < 2 * n * (q + 1)

\* The first in row order of the rows of `among` with the earliest day.
EarliestOf(r, among) ==
  CHOOSE j \in among :
    \A k \in among :
      \/ AssessmentDay(r, j) < AssessmentDay(r, k)
      \/ AssessmentDay(r, j) = AssessmentDay(r, k) /\ j <= k

\* The first in row order of the rows of `among` with the latest day.
LatestOf(r, among) ==
  CHOOSE j \in among :
    \A k \in among :
      \/ AssessmentDay(r, j) > AssessmentDay(r, k)
      \/ AssessmentDay(r, j) = AssessmentDay(r, k) /\ j <= k

\* The 'Completed' assessments of request r that have grades.
CompletedWithGrades(r) == {j \in WithStatus(r, "Completed") : GradesOf(r, j) # {}}

\* C14: nextAssessment is the 'Scheduled' Assessments row with the earliest
\* date, the first in row order among equal dates, or the literal
\* {date:'Apr 15', name:'Unit Test 3'} when there is none;
\* lastAssessmentAverage is the average of the 'Completed' assessment with
\* grades that has the latest date, the first in row order among equal
\* dates, or 76 when there is none.
C14_NextAndLast ==
  \A r \in DOMAIN req :
    Answered(r, "assessments-data") =>
      LET body == sent[r][1].body
          scheduled == WithStatus(r, "Scheduled")
          graded == CompletedWithGrades(r)
      IN  /\ scheduled = {} =>
               body.nextAssessment = [date |-> "Apr 15", name |-> "Unit Test 3"]
          /\ scheduled # {} =>
               LET row == DataRows(r, 1)[EarliestOf(r, scheduled)]
               IN  body.nextAssessment = [date |-> row[2], name |-> row[3]]
          /\ graded = {} => body.lastAssessmentAverage = 76
          /\ graded # {} =>
               body.lastAssessmentAverage = MeanPercent(r, LatestOf(r, graded))

\* C19: pendingGrades is the number of 'Completed' Assessments rows that
\* have no Grades row with their id; a 'Completed' assessment with a Grades
\* row is never counted, whatever the percentages of its rows.
C19_PendingGrades ==
  \A r \in DOMAIN req :
    Answered(r, "assessments-data") =>
      sent[r][1].body.pendingGrades =
        Cardinality(WithStatus(r, "Completed") \ CompletedWithGrades(r))


\* The day in the (zero-based) date column of the j-th data row of request
\* r's first table.
RowDay(r, j, col) == ParseDate(Observed(DataRows(r, 1)[j], col))

\* Row j comes before row k when sorted by date ascending, ties in row order.
DatedBefore(r, j, k, col) ==
  \/ RowDay(r, j, col) < RowDay(r, k, col)
  \/ RowDay(r, j, col) = RowDay(r, k, col) /\ j < k

\* The i-th of the rows `among` sorted by date ascending, ties in row order.
NthByDate(r, among, col, i) ==
  CHOOSE j \in among :
    Cardinality({k \in among : DatedBefore(r, k, j, col)}) = i - 1

\* The ids of the items of a list are those of the rows `among` sorted by
\* date ascending, ties in row order, cut to the first 5.
IsFirstFiveByDate(r, items, among, col) ==
  /\ Len(items) = IF Cardinality(among) < 5 THEN Cardinality(among) ELSE 5
  /\ \A i \in 1..Len(items) :
       items[i].id = DataRows(r, 1)[NthByDate(r, among, col, i)][1]

\* The 'Pending' Syllabus data rows of request r.
PendingTopics(r) ==
  {j \in 1..Len(DataRows(r, 1)) : Observed(DataRows(r, 1)[j], 5) = "Pending"}

\* The Events data rows of request r dated on or after the given day.
EventsFrom(r, day) ==
  {j \in 1..Len(DataRows(r, 1)) : RowDay(r, j, 1) # NaN /\ RowDay(r, j, 1) >= day}

\* C15: upcomingTopics is the 'Pending' topics sorted by start date
\* ascending, ties in row order, cut to the first 5; upcomingEvents is the
\* events dated today or later sorted by date ascending, ties in row order,
\* cut to the first 5. (For tables whose topics and events all carry a date.)
C15_UpcomingSortedFirstFive ==
  \A r \in DOMAIN req :
    /\ (Answered(r, "syllabus-data")
          /\ \A j \in PendingTopics(r) : RowDay(r, j, 6) # NaN) =>
         IsFirstFiveByDate(r, sent[r][1].body.upcomingTopics, PendingTopics(r), 6)
    /\ Answered(r, "calendar-data") =>
         IsFirstFiveByDate(r, sent[r][1].body.upcomingEvents,
                           EventsFrom(r, env[r].today), 1)


\* The rows of a table whose (zero-based) key column holds the key, in row
\* order; a row that ends before the column holds the value undefined.
Matching(rows, col, key) == SelectSeq(rows, LAMBDA row : Observed(row, col) = key)

\* The cell of a row, or the default when the cell is absent or empty.
CellOr(row, col, default) ==
  IF Len(row) > col /\ row[col + 1] # "" THEN row[col + 1] ELSE default

\* The entries of a performance-data list are the Performance rows of the
\* category, in row order, each joined to the first Students row with its id.
LearnersJoined(r, entries, category) ==
  LET rows == Matching(DataRows(r, 1), 2, category)
  IN  /\ Len(entries) = Len(rows)
      /\ \A i \in 1..Len(rows) :
           LET students == Matching(DataRows(r, 2), 0, rows[i][1])
               student == IF students = <<>> THEN <<>> ELSE students[1]
           IN  /\ entries[i].id = rows[i][1]
               /\ entries[i].name = CellOr(student, 1, "Unknown")
               /\ entries[i].category = CellOr(student, 3, "Unknown")
               /\ entries[i].serviceCategory = CellOr(student, 4, "Unknown")

\* C16: in student-details and performance-data a one-to-one lookup takes
\* the first data row in row order whose key cell equals the key (defaults
\* such as 'Unknown' and empty lists when there is none), a one-to-many
\* lookup (disciplineRecords by rollNo, achievements by student name) returns
\* all matching rows and only those, in row order, without deduplication,
\* and two requests against the same snapshot return the same joined records.
C16_Joins ==
  /\ \A r \in DOMAIN req :
       /\ Answered(r, "student-details") =>
            LET body == sent[r][1].body
                student == Matching(DataRows(r, 1), 0, req[r].param)[1]
                performances == Matching(DataRows(r, 2), 0, req[r].param)
                performance == IF performances = <<>> THEN <<>> ELSE performances[1]
                disciplines == Matching(DataRows(r, 3), 3, req[r].param)
                achievements == Matching(DataRows(r, 4), 2, Observed(student, 1))
            IN  /\ body.rollNo = req[r].param
                /\ body.name = Observed(student, 1)
                /\ body.category = Observed(student, 3)
                /\ body.performanceReport =
                     CellOr(performance, 6,
                            "The student shows consistent effort in academics.")
                /\ performances = <<>> =>
                     body.strengths = <<>> /\ body.weaknesses = <<>>
                       /\ body.suggestions = <<>>
                /\ Len(body.disciplineRecords) = Len(disciplines)
                /\ \A i \in 1..Len(disciplines) :
                     /\ body.disciplineRecords[i].id = disciplines[i][1]
                     /\ body.disciplineRecords[i].incident = Observed(disciplines[i], 4)
                /\ Len(body.achievements) = Len(achievements)
                /\ \A i \in 1..Len(achievements) :
                     body.achievements[i] = Observed(achievements[i], 3)
       /\ Answered(r, "performance-data") =>
            /\ LearnersJoined(r, sent[r][1].body.brightLearners, "Bright Learner")
            /\ LearnersJoined(r, sent[r][1].body.lateBoomers, "Late Bloomer")
  /\ \A r1, r2 \in DOMAIN req :
       (req[r1] = req[r2] /\ Served(r1) /\ Served(r2)) => sent[r1] = sent[r2]

\* Two student-details requests were answered for a Students table and a
\* Performance table that each hold the id twice, and a Discipline table
\* that holds two records of the student.
C16_Witness ==
  /\ \A r \in DOMAIN req : Answered(r, "student-details")
  /\ Len(req) = 2
  /\ Len(Matching(DataRows(1, 1), 0, req[1].param)) = 2
  /\ Len(Matching(DataRows(1, 2), 0, req[1].param)) = 2
  /\ Len(sent[1][1].body.disciplineRecords) = 2


\* The data rows of a sheet as the store holds them, all columns included.
StoredRows(sheet) == Slice1(store[sheet])

\* C17: a Discipline row whose action cell (sixth column) is present and
\* non-empty in the store is returned with that action, by discipline-data
\* (actionTaken) and by student-details (action); 'Verbal Warning' appears
\* only for rows whose action cell is absent or empty. The same for the
\* description cell (sixth column) of an Events row in the events that
\* calendar-data maps, with the default ''.
C17_SixthColumnReturned ==
  \A r \in DOMAIN req :
    /\ Answered(r, "discipline-data") =>
         \A j \in 1..Len(StoredRows("Discipline")) :
           sent[r][1].body.array[j].actionTaken =
             CellOr(StoredRows("Discipline")[j], 5, "Verbal Warning")
    /\ Answered(r, "student-details") =>
         LET stored == Matching(StoredRows("Discipline"), 3, req[r].param)
         IN  \A i \in 1..Len(stored) :
               sent[r][1].body.disciplineRecords[i].action =
                 CellOr(stored[i], 5, "Verbal Warning")
    /\ Answered(r, "calendar-data") =>
         \A i \in 1..Len(sent[r][1].body.upcomingEvents) :
           \A j \in 1..Len(StoredRows("Events")) :
             Observed(StoredRows("Events")[j], 0) = sent[r][1].body.upcomingEvents[i].id
               => sent[r][1].body.upcomingEvents[i].description =
                    CellOr(StoredRows("Events")[j], 5, "")


----------------------------------------------------------------------------
\* SpecCategories: one categories-data request against every small Students
\* and Performance table: two students of one category, a roll number held
\* by two students, a gender that is neither 'Male' nor 'Female', and
\* Performance rows that repeat an id with another category or with none.

CategoryStudentInputs ==
  {<<"101", "Asha", "Female", "OBC">>,
   <<"102", "Ravi", "Male", "OBC">>,
   <<"103", "Ira", "Other", "SC">>,
   <<"101", "Asha II", "Male", "SC">>,
   <<"104">>}
CategoryPerformanceInputs ==
  {<<"101", "Excellent", "Bright Learner">>,
   <<"101", "Poor", "Late Bloomer">>,
   <<"102", "Poor", "Late Bloomer">>,
   <<"101", "Good">>,
   <<"103">>}

CategoryCases ==
  {<<WithSheet(WithSheet(FullStore, "Students", ts), "Performance", tp),
     Request("categories-data", UNDEF)>> :
     ts \in Tables(StudentsHeader, CategoryStudentInputs),
     tp \in Tables(PerformanceHeader, CategoryPerformanceInputs)}

InitCategories ==
  \E c \in CategoryCases : Start(c[1], <<c[2]>>, <<Clock(Sunday, Noon, UTC, 0)>>)

SpecCategories == InitCategories /\ [][Next]_vars

\* Some Performance row has the id in its first cell.
HasPerformanceRow(performance, id) ==
  \E k \in 1..Len(performance) : Observed(performance[k], 0) = id

\* The category cell of the first Performance row, in row order, with the id.
FirstPerformanceCategory(performance, id) ==
  Observed(performance[FirstRowWith(performance, LAMBDA p : Observed(p, 0), id)], 2)

\* The number of Students rows of the caste label whose first Performance
\* row has the performance category.
LearnersOfLabel(students, performance, label, category) ==
  Cardinality({j \in 1..Len(students) :
    /\ Observed(students[j], 3) = label
    /\ HasPerformanceRow(performance, Observed(students[j], 0))
    /\ FirstPerformanceCategory(performance, Observed(students[j], 0)) = category})

\* C18: in a categories-data response, for each of the five caste labels,
\* brightLearners (lateBoomers) is the number of Students rows of the label
\* whose first Performance row with the student's roll number has category
\* 'Bright Learner' ('Late Bloomer'), later rows with the same id being
\* ignored; total is the casteCategories count of the label, and
\* boys + girls <= total and brightLearners + lateBoomers <= total.
C18_DetailedCategories ==
  \A r \in DOMAIN req :
    Answered(r, "categories-data") =>
      LET body == sent[r][1].body
          detailed == body.detailedCategories
      IN  /\ Len(detailed) = Len(CasteLabels)
          /\ \A i \in 1..Len(CasteLabels) :
               /\ detailed[i].name = CasteLabels[i]
               /\ detailed[i].brightLearners =
                    LearnersOfLabel(DataRows(r, 1), DataRows(r, 2),
                                    CasteLabels[i], "Bright Learner")
               /\ detailed[i].lateBoomers =
                    LearnersOfLabel(DataRows(r, 1), DataRows(r, 2),
                                    CasteLabels[i], "Late Bloomer")
               /\ detailed[i].total = body.casteCategories[i].count
               /\ detailed[i].total = Occurrences(DataRows(r, 1), 3, CasteLabels[i])
               /\ detailed[i].boys + detailed[i].girls <= detailed[i].total
               /\ detailed[i].brightLearners + detailed[i].lateBoomers
                    <= detailed[i].total

\* A response for one OBC student whose id has a 'Bright Learner' row
\* followed by a 'Late Bloomer' row: counted once, as a bright learner.
C18_Witness ==
  \E r \in DOMAIN req :
    /\ Answered(r, "categories-data")
    /\ DataRows(r, 1) = <<<<"101", "Asha", "Female", "OBC">>>>
    /\ DataRows(r, 2) = <<<<"101", "Excellent", "Bright Learner">>,
                          <<"101", "Poor", "Late Bloomer">>>>
    /\ sent[r][1].body.detailedCategories[2].brightLearners = 1
    /\ sent[r][1].body.detailedCategories[2].lateBoomers = 0
    /\ sent[r][1].body.detailedCategories[2].total = 1


\* The number of entries of a students list whose percentage is below 75.
BelowThreshold(entries) ==
  Cardinality({i \in 1..Len(entries) : entries[i].percentage < 75})

\* C20: in an attendance-data response, whatever the Students and Attendance
\* tables hold (several Attendance rows of one student on one date included),
\* every per-student entry has 0 <= totalPresent <= totalDays and
\* 0 <= percentage <= 100, the percentage being 90 for a student without
\* Attendance row, and belowThreshold is the number of returned students
\* whose percentage is below 75.
C20_StudentEntriesBounded ==
  \A r \in DOMAIN req :
    Answered(r, "attendance-data") =>
      LET body == sent[r][1].body
      IN  /\ body.belowThreshold = BelowThreshold(body.students)
          /\ \A i \in 1..Len(body.students) :
               /\ 0 <= body.students[i].totalPresent
               /\ body.students[i].totalPresent <= body.students[i].totalDays
               /\ 0 <= body.students[i].percentage
               /\ body.students[i].percentage <= 100
               /\ Len(Matching(DataRows(r, 1), 2, body.students[i].rollNo)) = 0
                    => body.students[i].percentage = 90


====
